---- MODULE Spec2Model ----
(***************************************************************************)
(* Order / Position / CalendarEvent lifecycle of the MEXC sniper backend:  *)
(*   storage/models.rs    OrderItem, PositionItem, CalendarEventItem, keys *)
(*   storage/dynamodb.rs  put_*, get_order, range queries, decoding        *)
(*   trading/sniper.rs    execute_snipe, should_execute_snipe              *)
(*   trading/detector.rs  PatternDetector::detect_pattern                  *)
(*   trading/manager.rs   PositionManager                                  *)
(*   api/trading.rs       create_order, get_order, cancel_order handlers   *)
(*   mexc/models.rs       MexcClient::create_order, cancel_order           *)
(* Specifications: Spec (concurrent snipes), SpecApi (every handler, one   *)
(* request at a time), SpecStore and SpecDrift (the store used directly),  *)
(* SpecDetector (detector and snipe gate), SpecPosition (positions).       *)
(* Strings that take part in key construction and prefix matching are      *)
(* sequences of one-character strings; f64 quantities are integers.        *)
(***************************************************************************)
EXTENDS Integers, Sequences, FiniteSets, TLC

VARIABLES table, now, uuids, pc, frame

vars == <<table, now, uuids, pc, frame>>

(* ------------------------------ bounds --------------------------------- *)
\* the wall clock (epoch milliseconds) runs from 1 to MaxTime
MaxTime == 2
\* number of v4 uuids (orders and events) created in one run of Spec
MaxUuid == 3
\* number of v4 uuids (orders and events) created in one run of SpecApi
MaxSerialUuid == 2
\* rows the table holds in SpecStore and SpecDrift
MaxRows == 2
\* longest interval sequence handed to detect_pattern
MaxIntervals == 4
\* positions opened in one run of SpecPosition
MaxPositions == 1

\* the invocations that may be in flight at once
Procs == {1, 2}
Users == {"u1", "u2"}
\* caller-supplied quantities (f64): negative, zero, positive
Quantities == {-1, 0, 1}
\* statuses and order ids the exchange may report in an OrderResponse
ExchangeStatuses == {"open", "filled"}
MexcIds == {"m1"}
\* failures of MexcClient::create_order: an error of send() or json() (the ?
\* operator passes it on) and a non-success HTTP status ("MEXC API Error: <body>")
ExchangeErrors == {"transport", "MEXC API Error: rejected"}

(* --------------------------- Option<T> --------------------------------- *)
None == <<>>
Some(x) == <<x>>
IsSome(o) == Len(o) = 1
Unwrap(o) == o[1]

(* ------------------ strings as character sequences --------------------- *)
DigitChar(d) == <<"0", "1", "2", "3", "4", "5", "6", "7", "8", "9">>[d + 1]

\* i64 / u128 Display: decimal digits of a natural number
RECURSIVE Digits(_)
Digits(n) == IF n < 10 THEN <<DigitChar(n)>> ELSE Digits(n \div 10) \o <<DigitChar(n % 10)>>

\* Uuid::new_v4().to_string(): hyphenated hex; the n-th uuid handed out.
\* It always holds a '-' and so is never a decimal number.
UuidString(n) == Digits(n) \o <<"-", "4">>

\* str::starts_with / DynamoDB begins_with
BeginsWith(s, prefix) ==
    /\ Len(prefix) <= Len(s)
    /\ \A i \in 1..Len(prefix) : s[i] = prefix[i]

\* byte value of the characters that occur in keys (ASCII)
CharCode(c) ==
    CASE c = "#" -> 35 [] c = "-" -> 45
      [] c = "0" -> 48 [] c = "1" -> 49 [] c = "2" -> 50 [] c = "3" -> 51
      [] c = "4" -> 52 [] c = "5" -> 53 [] c = "6" -> 54 [] c = "7" -> 55
      [] c = "8" -> 56 [] c = "9" -> 57
      [] c = "A" -> 65 [] c = "C" -> 67 [] c = "D" -> 68 [] c = "E" -> 69
      [] c = "I" -> 73 [] c = "L" -> 76 [] c = "N" -> 78 [] c = "O" -> 79
      [] c = "P" -> 80 [] c = "R" -> 82 [] c = "S" -> 83 [] c = "T" -> 84

\* byte-wise order of sort keys, the order in which a Query returns items
RECURSIVE StrLess(_, _)
StrLess(a, b) ==
    IF b = <<>> THEN FALSE
    ELSE IF a = <<>> THEN TRUE
    ELSE IF a[1] # b[1] THEN CharCode(a[1]) < CharCode(b[1])
    ELSE StrLess(Tail(a), Tail(b))

OrderPrefix == <<"O", "R", "D", "E", "R", "#">>
CalendarPrefix == <<"C", "A", "L", "E", "N", "D", "A", "R", "#">>

(* --------------------------- storage/models.rs ------------------------- *)
\* retention window added to the creation time (seconds): 90 days
RetentionSecs == 7776000

\* chrono timestamp(): whole seconds of an epoch-millisecond instant
EpochSecs(ms) == ms \div 1000

OrderItemNew(user_id, symbol, side, order_type, quantity, price, uuid, t) ==
    [ user_id |-> user_id,
      order_id |-> UuidString(uuid),
      symbol |-> symbol,
      side |-> side,
      order_type |-> order_type,
      quantity |-> quantity,
      price |-> price,
      filled_qty |-> 0,
      status |-> "pending",
      timestamp |-> t,
      created_at |-> t,
      updated_at |-> t,
      mexc_order_id |-> None,
      error_message |-> None,
      ttl |-> EpochSecs(t) + RetentionSecs ]

\* a variant whose sort key leaves out the order id
OrderSortKeyNoId(order) ==
    OrderPrefix \o Digits(order.timestamp)

OrderSortKey(order) ==
    OrderPrefix \o Digits(order.timestamp) \o <<"#">> \o order.order_id

CalendarEventItemNew(user_id, token_name, symbol, launch_time, detected_pattern, confidence, uuid, t) ==
    [ user_id |-> user_id,
      event_id |-> UuidString(uuid),
      token_name |-> token_name,
      symbol |-> symbol,
      launch_time |-> launch_time,
      detected_pattern |-> detected_pattern,
      confidence |-> confidence,
      created_at |-> t,
      status |-> "detected",
      execution_time |-> None,
      executed_orders |-> <<>>,
      ttl |-> EpochSecs(t) + RetentionSecs ]

CalendarSortKey(event) ==
    CalendarPrefix \o Digits(event.launch_time) \o <<"#">> \o event.event_id

(* ------------------------- storage/dynamodb.rs ------------------------- *)
\* AttributeValue::S / ::N / ::Ss
S(x) == [t |-> "S", v |-> x]
N(x) == [t |-> "N", v |-> x]
Ss(x) == [t |-> "Ss", v |-> x]

NoAttrs == [a \in {} |-> a]
\* HashMap::insert of the attributes of g into f
Insert(f, g) == [a \in (DOMAIN f) \cup (DOMAIN g) |-> IF a \in DOMAIN g THEN g[a] ELSE f[a]]

\* the item put_order builds
OrderToItem(order) ==
    Insert(Insert(Insert(
        [ user_id |-> S(order.user_id),
          sk |-> S(OrderSortKey(order)),
          order_id |-> S(order.order_id),
          symbol |-> S(order.symbol),
          side |-> S(order.side),
          order_type |-> S(order.order_type),
          quantity |-> N(order.quantity),
          filled_qty |-> N(order.filled_qty),
          status |-> S(order.status),
          timestamp |-> N(order.timestamp),
          created_at |-> S(order.created_at),
          updated_at |-> S(order.updated_at),
          ttl |-> N(order.ttl),
          data_type |-> S("ORDER") ],
        IF IsSome(order.price) THEN [price |-> N(Unwrap(order.price))] ELSE NoAttrs),
        IF IsSome(order.mexc_order_id) THEN [mexc_order_id |-> S(Unwrap(order.mexc_order_id))] ELSE NoAttrs),
        IF IsSome(order.error_message) THEN [error_message |-> S(Unwrap(order.error_message))] ELSE NoAttrs)

\* the item put_calendar_event builds
CalendarEventToItem(event) ==
    Insert(Insert(
        [ user_id |-> S(event.user_id),
          sk |-> S(CalendarSortKey(event)),
          event_id |-> S(event.event_id),
          token_name |-> S(event.token_name),
          symbol |-> S(event.symbol),
          launch_time |-> N(event.launch_time),
          detected_pattern |-> S(event.detected_pattern),
          confidence |-> N(event.confidence),
          created_at |-> S(event.created_at),
          status |-> S(event.status),
          ttl |-> N(event.ttl),
          data_type |-> S("CALENDAR") ],
        IF IsSome(event.execution_time) THEN [execution_time |-> N(Unwrap(event.execution_time))] ELSE NoAttrs),
        IF event.executed_orders # <<>> THEN [executed_orders |-> Ss(event.executed_orders)] ELSE NoAttrs)

\* PutItem: upsert under (partition key, sort key)
ItemKey(item) == <<item.user_id.v, item.sk.v>>

\* a variant that keeps the row a key already holds
PutItemIfAbsent(tbl, item) ==
    [k \in (DOMAIN tbl) \cup {ItemKey(item)} |-> IF k \in DOMAIN tbl THEN tbl[k] ELSE item]

PutItem(tbl, item) ==
    [k \in (DOMAIN tbl) \cup {ItemKey(item)} |-> IF k = ItemKey(item) THEN item ELSE tbl[k]]

\* field readers of the decoder
HasS(item, key) == key \in DOMAIN item /\ item[key].t = "S"
HasN(item, key) == key \in DOMAIN item /\ item[key].t = "N"
HasSs(item, key) == key \in DOMAIN item /\ item[key].t = "Ss"
GetOptionalString(item, key) == IF HasS(item, key) THEN Some(item[key].v) ELSE None
GetOptionalNumber(item, key) == IF HasN(item, key) THEN Some(item[key].v) ELSE None
GetOptionalStringList(item, key) == IF HasSs(item, key) THEN Some(item[key].v) ELSE None

Ok(x) == [ok |-> TRUE, val |-> x]
Err(e) == [ok |-> FALSE, err |-> e]

ItemToOrder(item) ==
    IF /\ \A key \in {"user_id", "order_id", "symbol", "side", "order_type", "status",
                      "created_at", "updated_at"} : HasS(item, key)
       /\ \A key \in {"quantity", "filled_qty", "timestamp", "ttl"} : HasN(item, key)
    THEN Ok([ user_id |-> item.user_id.v,
              order_id |-> item.order_id.v,
              symbol |-> item.symbol.v,
              side |-> item.side.v,
              order_type |-> item.order_type.v,
              quantity |-> item.quantity.v,
              price |-> GetOptionalNumber(item, "price"),
              filled_qty |-> item.filled_qty.v,
              status |-> item.status.v,
              timestamp |-> item.timestamp.v,
              created_at |-> item.created_at.v,
              updated_at |-> item.updated_at.v,
              mexc_order_id |-> GetOptionalString(item, "mexc_order_id"),
              error_message |-> GetOptionalString(item, "error_message"),
              ttl |-> item.ttl.v ])
    ELSE Err("Missing or invalid field")

ItemToCalendarEvent(item) ==
    IF /\ \A key \in {"user_id", "event_id", "token_name", "symbol", "detected_pattern",
                      "created_at", "status"} : HasS(item, key)
       /\ \A key \in {"launch_time", "confidence", "ttl"} : HasN(item, key)
    THEN Ok([ user_id |-> item.user_id.v,
              event_id |-> item.event_id.v,
              token_name |-> item.token_name.v,
              symbol |-> item.symbol.v,
              launch_time |-> item.launch_time.v,
              detected_pattern |-> item.detected_pattern.v,
              confidence |-> item.confidence.v,
              created_at |-> item.created_at.v,
              status |-> item.status.v,
              execution_time |-> GetOptionalNumber(item, "execution_time"),
              executed_orders |->
                  IF IsSome(GetOptionalStringList(item, "executed_orders"))
                  THEN Unwrap(GetOptionalStringList(item, "executed_orders")) ELSE <<>>,
              ttl |-> item.ttl.v ])
    ELSE Err("Missing or invalid field")

\* Query: the keys of one partition whose sort key begins with prefix
QueryKeys(tbl, user_id, prefix) ==
    {k \in DOMAIN tbl : k[1] = user_id /\ BeginsWith(k[2], prefix)}

\* items.first(): a Query returns the items in sort-key order
FirstKey(keys) == CHOOSE k \in keys : \A j \in keys : j = k \/ StrLess(k[2], j[2])

\* DynamoDBStore::get_order: Ok(None), Ok(Some(order)) or a decode error
GetOrder(tbl, user_id, order_id) ==
    LET keys == QueryKeys(tbl, user_id, OrderPrefix \o order_id \o <<"#">>)
    IN  IF keys = {} THEN Ok(None)
        ELSE LET d == ItemToOrder(tbl[FirstKey(keys)])
             IN  IF d.ok THEN Ok(Some(d.val)) ELSE d

\* query_calendar_events_by_time over one owner's CALENDAR# rows
QueryCalendarEventsByTime(tbl, user_id, start_time, end_time) ==
    {tbl[k] : k \in {j \in QueryKeys(tbl, user_id, <<>>) :
                        /\ BeginsWith(tbl[j].sk.v, CalendarPrefix)
                        /\ HasN(tbl[j], "launch_time")
                        /\ tbl[j].launch_time.v >= start_time
                        /\ tbl[j].launch_time.v <= end_time}}

(* --------------------- mexc/models.rs: the exchange -------------------- *)
\* the OrderRequest execute_snipe and the create-order handler hand to the client
OrderRequest(symbol, side, order_type, quantity, price) ==
    [symbol |-> symbol, side |-> side, order_type |-> order_type,
     quantity |-> quantity, price |-> price]

\* MexcClient::create_order: one POST is sent; the call ends with the decoded
\* OrderResponse or with the error of send(), of the status check or of json()
CreateOrderOutcomes(request) ==
    {Ok([order_id |-> m, symbol |-> request.symbol, side |-> request.side,
         order_type |-> request.order_type, quantity |-> request.quantity,
         status |-> st]) : m \in MexcIds, st \in ExchangeStatuses}
    \cup {Err(e) : e \in ExchangeErrors}

(* ------------------------------ state ---------------------------------- *)
\* the locals of one invocation; log lists the collaborator calls it has made
IdleFrame ==
    [op |-> "none", user |-> "", arg |-> None, event |-> None, order |-> None,
     resp |-> None, ret |-> None, log |-> <<>>]

Init ==
    /\ table = NoAttrs
    /\ now = 1
    /\ uuids = 0
    /\ pc = [p \in Procs |-> "idle"]
    /\ frame = [p \in Procs |-> IdleFrame]

\* the wall clock advances
Tick ==
    /\ now < MaxTime
    /\ now' = now + 1
    /\ UNCHANGED <<table, uuids, pc, frame>>

LaunchTimes == {7}

\* a detected listing is recorded: CalendarEventItem::new, then put_calendar_event
DetectEvent(user, launch_time) ==
    /\ uuids' = uuids + 1
    /\ table' = PutItem(table, CalendarEventToItem(
           CalendarEventItemNew(user, "TOKEN", "ETHUSDT", launch_time, "sts:2", 95, uuids + 1, now)))
    /\ UNCHANGED <<now, pc, frame>>

\* the events a caller can read back from the store
StoredEvents ==
    {ItemToCalendarEvent(i).val :
        i \in {j \in UNION {QueryCalendarEventsByTime(table, u, 0, 99) : u \in Users} :
                  ItemToCalendarEvent(j).ok}}

\* an invocation returns to its caller
Return(p) ==
    /\ pc[p] = "done"
    /\ pc' = [pc EXCEPT ![p] = "idle"]
    /\ frame' = [frame EXCEPT ![p] = IdleFrame]
    /\ UNCHANGED <<table, now, uuids>>

(* ---------------- storage/models.rs: PositionItem ----------------------- *)
PositionPrefix == <<"P", "O", "S", "I", "T", "I", "O", "N", "#">>

PositionItemNew(user_id, symbol, entry_price, quantity, side, uuid, t) ==
    [ user_id |-> user_id,
      position_id |-> UuidString(uuid),
      symbol |-> symbol,
      entry_price |-> entry_price,
      current_price |-> entry_price,
      quantity |-> quantity,
      side |-> side,
      entry_time |-> t,
      pnl |-> None,
      pnl_percentage |-> None,
      status |-> "open",
      updated_at |-> t,
      ttl |-> EpochSecs(t) + RetentionSecs ]

PositionSortKey(position) ==
    PositionPrefix \o Digits(position.entry_time) \o <<"#">> \o position.position_id

(* --------------- storage/dynamodb.rs: positions and queries ------------- *)
\* the item put_position builds
PositionToItem(position) ==
    Insert(Insert(
        [ user_id |-> S(position.user_id),
          sk |-> S(PositionSortKey(position)),
          position_id |-> S(position.position_id),
          symbol |-> S(position.symbol),
          entry_price |-> N(position.entry_price),
          current_price |-> N(position.current_price),
          quantity |-> N(position.quantity),
          side |-> S(position.side),
          entry_time |-> N(position.entry_time),
          status |-> S(position.status),
          updated_at |-> S(position.updated_at),
          ttl |-> N(position.ttl),
          data_type |-> S("POSITION") ],
        IF IsSome(position.pnl) THEN [pnl |-> N(Unwrap(position.pnl))] ELSE NoAttrs),
        IF IsSome(position.pnl_percentage)
        THEN [pnl_percentage |-> N(Unwrap(position.pnl_percentage))] ELSE NoAttrs)

ItemToPosition(item) ==
    IF /\ \A key \in {"user_id", "position_id", "symbol", "side", "status", "updated_at"} :
             HasS(item, key)
       /\ \A key \in {"entry_price", "current_price", "quantity", "entry_time", "ttl"} :
             HasN(item, key)
    THEN Ok([ user_id |-> item.user_id.v,
              position_id |-> item.position_id.v,
              symbol |-> item.symbol.v,
              entry_price |-> item.entry_price.v,
              current_price |-> item.current_price.v,
              quantity |-> item.quantity.v,
              side |-> item.side.v,
              entry_time |-> item.entry_time.v,
              pnl |-> GetOptionalNumber(item, "pnl"),
              pnl_percentage |-> GetOptionalNumber(item, "pnl_percentage"),
              status |-> item.status.v,
              updated_at |-> item.updated_at.v,
              ttl |-> item.ttl.v ])
    ELSE Err("Missing or invalid field")

\* response.items: the matched items in sort-key order
RECURSIVE ItemsInOrder(_)
ItemsInOrder(items) ==
    IF items = {} THEN <<>>
    ELSE LET first == CHOOSE i \in items : \A j \in items : j = i \/ StrLess(i.sk.v, j.sk.v)
         IN  <<first>> \o ItemsInOrder(items \ {first})

\* the items of one partition that pass begins_with(sk, prefix) AND #status = status
ItemsByStatus(tbl, user_id, prefix, status) ==
    ItemsInOrder({tbl[k] : k \in {j \in QueryKeys(tbl, user_id, <<>>) :
                                     /\ BeginsWith(tbl[j].sk.v, prefix)
                                     /\ HasS(tbl[j], "status")
                                     /\ tbl[j].status.v = status}})

\* a variant of query_orders_by_status that filters on the status alone
QueryOrdersByStatusAnyType(tbl, user_id, status) ==
    LET items == ItemsByStatus(tbl, user_id, <<>>, status)
    IN  IF \E n \in 1..Len(items) : ~ItemToOrder(items[n]).ok
        THEN Err("Missing or invalid field")
        ELSE Ok([n \in 1..Len(items) |-> ItemToOrder(items[n]).val])

\* query_orders_by_status: every matched item is decoded, the first failure
\* ends the operation
QueryOrdersByStatus(tbl, user_id, status) ==
    LET items == ItemsByStatus(tbl, user_id, OrderPrefix, status)
    IN  IF \E n \in 1..Len(items) : ~ItemToOrder(items[n]).ok
        THEN Err("Missing or invalid field")
        ELSE Ok([n \in 1..Len(items) |-> ItemToOrder(items[n]).val])

\* query_open_positions
QueryOpenPositions(tbl, user_id) ==
    LET items == ItemsByStatus(tbl, user_id, PositionPrefix, "open")
    IN  IF \E n \in 1..Len(items) : ~ItemToPosition(items[n]).ok
        THEN Err("Missing or invalid field")
        ELSE Ok([n \in 1..Len(items) |-> ItemToPosition(items[n]).val])

\* query_calendar_events_by_time with its decoding loop
CalendarEventsByTime(tbl, user_id, start_time, end_time) ==
    LET items == ItemsInOrder(QueryCalendarEventsByTime(tbl, user_id, start_time, end_time))
    IN  IF \E n \in 1..Len(items) : ~ItemToCalendarEvent(items[n]).ok
        THEN Err("Missing or invalid field")
        ELSE Ok([n \in 1..Len(items) |-> ItemToCalendarEvent(items[n]).val])

(* ----------------- trading/sniper.rs: execute_snipe -------------------- *)
\* lines 27-37: the Order is constructed from the event and the parameters
SnipeStart(p, event, side, quantity) ==
    /\ pc[p] = "idle"
    /\ uuids' = uuids + 1
    /\ frame' = [frame EXCEPT ![p] =
           [IdleFrame EXCEPT !.op = "execute_snipe",
                             !.user = event.user_id,
                             !.arg = Some([side |-> side, quantity |-> quantity]),
                             !.event = Some(event),
                             !.order = Some(OrderItemNew(event.user_id, event.symbol, side,
                                                         "market", quantity, None, uuids + 1, now))]]
    /\ pc' = [pc EXCEPT ![p] = "snipe_exchange"]
    /\ UNCHANGED <<table, now>>

\* a variant that stores an error record of the Order when the exchange fails
SnipeExchangeStoresError(p) ==
    /\ pc[p] = "snipe_exchange"
    /\ LET order == Unwrap(frame[p].order)
       IN  \E out \in CreateOrderOutcomes(
                  OrderRequest(order.symbol, order.side, "MARKET", order.quantity, None)) :
             IF out.ok
             THEN /\ frame' = [frame EXCEPT ![p].log = Append(@, "create_order"),
                                            ![p].resp = Some(out),
                                            ![p].order = Some([order EXCEPT
                                                !.mexc_order_id = Some(out.val.order_id),
                                                !.status = out.val.status])]
                  /\ pc' = [pc EXCEPT ![p] = "snipe_put_order"]
                  /\ table' = table
             ELSE /\ frame' = [frame EXCEPT ![p].log = Append(@, "create_order"),
                                            ![p].resp = Some(out),
                                            ![p].ret = Some(Err(out.err))]
                  /\ pc' = [pc EXCEPT ![p] = "done"]
                  /\ table' = PutItem(table, OrderToItem([order EXCEPT
                                 !.error_message = Some(out.err), !.status = "error"]))
    /\ UNCHANGED <<now, uuids>>

\* lines 39-53: the exchange call; on success the Order takes the exchange's
\* order id and status, on failure the error is returned (the ? operator)
SnipeExchange(p) ==
    /\ pc[p] = "snipe_exchange"
    /\ LET order == Unwrap(frame[p].order)
       IN  \E out \in CreateOrderOutcomes(
                  OrderRequest(order.symbol, order.side, "MARKET", order.quantity, None)) :
             IF out.ok
             THEN /\ frame' = [frame EXCEPT ![p].log = Append(@, "create_order"),
                                            ![p].resp = Some(out),
                                            ![p].order = Some([order EXCEPT
                                                !.mexc_order_id = Some(out.val.order_id),
                                                !.status = out.val.status])]
                  /\ pc' = [pc EXCEPT ![p] = "snipe_put_order"]
             ELSE /\ frame' = [frame EXCEPT ![p].log = Append(@, "create_order"),
                                            ![p].resp = Some(out),
                                            ![p].ret = Some(Err(out.err))]
                  /\ pc' = [pc EXCEPT ![p] = "done"]
    /\ UNCHANGED <<table, now, uuids>>

\* a variant that goes on to the event write without having written the Order
SnipePutOrderSkipped(p) ==
    /\ pc[p] = "snipe_put_order"
    /\ frame' = [frame EXCEPT ![p].log = Append(@, "put_order")]
    /\ pc' = [pc EXCEPT ![p] = "snipe_put_event"]
    /\ UNCHANGED <<table, now, uuids>>

\* a variant that goes on to the event write after a failed Order write
SnipePutOrderContinues(p) ==
    /\ pc[p] = "snipe_put_order"
    /\ \E stored \in BOOLEAN :
         table' = IF stored THEN PutItem(table, OrderToItem(Unwrap(frame[p].order))) ELSE table
    /\ frame' = [frame EXCEPT ![p].log = Append(@, "put_order")]
    /\ pc' = [pc EXCEPT ![p] = "snipe_put_event"]
    /\ UNCHANGED <<now, uuids>>

\* lines 55-56: put_order(&updated_order).await?
SnipePutOrder(p) ==
    /\ pc[p] = "snipe_put_order"
    /\ \E stored \in BOOLEAN :
         IF stored
         THEN /\ table' = PutItem(table, OrderToItem(Unwrap(frame[p].order)))
              /\ frame' = [frame EXCEPT ![p].log = Append(@, "put_order")]
              /\ pc' = [pc EXCEPT ![p] = "snipe_put_event"]
         ELSE /\ table' = table
              /\ frame' = [frame EXCEPT ![p].log = Append(@, "put_order"),
                                        ![p].ret = Some(Err("storage"))]
              /\ pc' = [pc EXCEPT ![p] = "done"]
    /\ UNCHANGED <<now, uuids>>

\* a variant that leaves execution_time unset
UpdatedEventNoTime(event, order, t) ==
    [event EXCEPT !.status = "sniped", !.executed_orders = Append(@, order.order_id)]

\* a variant that marks the event sniped without linking the order
UpdatedEventNoLink(event, order, t) ==
    [event EXCEPT !.status = "sniped", !.execution_time = Some(t)]

\* lines 58-62: the clone of the caller's event that is written back
UpdatedEvent(event, order, t) ==
    [event EXCEPT !.status = "sniped",
                  !.executed_orders = Append(@, order.order_id),
                  !.execution_time = Some(t)]

\* lines 64-66: put_calendar_event(&updated_event).await?; Ok(order_id)
SnipePutEvent(p) ==
    /\ pc[p] = "snipe_put_event"
    /\ \E stored \in BOOLEAN :
         IF stored
         THEN /\ table' = PutItem(table, CalendarEventToItem(
                     UpdatedEvent(Unwrap(frame[p].event), Unwrap(frame[p].order), now)))
              /\ frame' = [frame EXCEPT ![p].log = Append(@, "put_calendar_event"),
                                        ![p].ret = Some(Ok(Unwrap(frame[p].order).order_id))]
         ELSE /\ table' = table
              /\ frame' = [frame EXCEPT ![p].log = Append(@, "put_calendar_event"),
                                        ![p].ret = Some(Err("storage"))]
    /\ pc' = [pc EXCEPT ![p] = "done"]
    /\ UNCHANGED <<now, uuids>>

(* -------------------- api/trading.rs: create_order ---------------------- *)
\* lines 26-48: validation, then the Order and the exchange request are built
ApiCreateStart(p, user, quantity, price) ==
    /\ pc[p] = "idle"
    /\ IF quantity <= 0
       THEN /\ frame' = [frame EXCEPT ![p] =
                   [IdleFrame EXCEPT !.op = "create_order",
                                     !.user = user,
                                     !.arg = Some([quantity |-> quantity, price |-> price]),
                                     !.ret = Some(Err([code |-> 400, msg |-> "Quantity must be positive"]))]]
            /\ pc' = [pc EXCEPT ![p] = "done"]
            /\ UNCHANGED uuids
       ELSE /\ uuids' = uuids + 1
            /\ frame' = [frame EXCEPT ![p] =
                   [IdleFrame EXCEPT !.op = "create_order",
                                     !.user = user,
                                     !.arg = Some([quantity |-> quantity, price |-> price]),
                                     !.order = Some(OrderItemNew(user, "ETHUSDT", "BUY", "LIMIT",
                                                                 quantity, price, uuids + 1, now))]]
            /\ pc' = [pc EXCEPT ![p] = "api_exchange"]
    /\ UNCHANGED <<table, now>>

\* a variant that sends the request again after a transport error
ApiCreateExchangeRetry(p) ==
    /\ pc[p] = "api_exchange"
    /\ LET order == Unwrap(frame[p].order)
       IN  \E out \in CreateOrderOutcomes(
                  OrderRequest(order.symbol, order.side, order.order_type, order.quantity, order.price)) :
             IF out.ok
             THEN /\ frame' = [frame EXCEPT ![p].log = Append(@, "create_order"),
                                            ![p].resp = Some(out),
                                            ![p].order = Some([order EXCEPT
                                                !.mexc_order_id = Some(out.val.order_id),
                                                !.status = out.val.status])]
                  /\ pc' = [pc EXCEPT ![p] = "api_put_order"]
             ELSE IF out.err = "transport" /\ Len(frame[p].log) < 2
             THEN /\ frame' = [frame EXCEPT ![p].log = Append(@, "create_order")]
                  /\ pc' = pc
             ELSE /\ frame' = [frame EXCEPT ![p].log = Append(@, "create_order"),
                                            ![p].resp = Some(out),
                                            ![p].order = Some([order EXCEPT
                                                !.error_message = Some(out.err),
                                                !.status = "error"])]
                  /\ pc' = [pc EXCEPT ![p] = "api_put_error"]
    /\ UNCHANGED <<table, now, uuids>>

\* a variant that records the exchange's error but leaves the status as it was
ApiCreateExchangeKeepsStatus(p) ==
    /\ pc[p] = "api_exchange"
    /\ LET order == Unwrap(frame[p].order)
       IN  \E out \in CreateOrderOutcomes(
                  OrderRequest(order.symbol, order.side, order.order_type, order.quantity, order.price)) :
             IF out.ok
             THEN /\ frame' = [frame EXCEPT ![p].log = Append(@, "create_order"),
                                            ![p].resp = Some(out),
                                            ![p].order = Some([order EXCEPT
                                                !.mexc_order_id = Some(out.val.order_id),
                                                !.status = out.val.status])]
                  /\ pc' = [pc EXCEPT ![p] = "api_put_order"]
             ELSE /\ frame' = [frame EXCEPT ![p].log = Append(@, "create_order"),
                                            ![p].resp = Some(out),
                                            ![p].order = Some([order EXCEPT
                                                !.error_message = Some(out.err)])]
                  /\ pc' = [pc EXCEPT ![p] = "api_put_error"]
    /\ UNCHANGED <<table, now, uuids>>

\* lines 50-55 and 71-74: the exchange call and what it does to the Order
ApiCreateExchange(p) ==
    /\ pc[p] = "api_exchange"
    /\ LET order == Unwrap(frame[p].order)
       IN  \E out \in CreateOrderOutcomes(
                  OrderRequest(order.symbol, order.side, order.order_type, order.quantity, order.price)) :
             IF out.ok
             THEN /\ frame' = [frame EXCEPT ![p].log = Append(@, "create_order"),
                                            ![p].resp = Some(out),
                                            ![p].order = Some([order EXCEPT
                                                !.mexc_order_id = Some(out.val.order_id),
                                                !.status = out.val.status])]
                  /\ pc' = [pc EXCEPT ![p] = "api_put_order"]
             ELSE /\ frame' = [frame EXCEPT ![p].log = Append(@, "create_order"),
                                            ![p].resp = Some(out),
                                            ![p].order = Some([order EXCEPT
                                                !.error_message = Some(out.err),
                                                !.status = "error"])]
                  /\ pc' = [pc EXCEPT ![p] = "api_put_error"]
    /\ UNCHANGED <<table, now, uuids>>

\* lines 56-69: the accepted Order is stored; a storage error is a 500
ApiCreatePutOrder(p) ==
    /\ pc[p] = "api_put_order"
    /\ LET order == Unwrap(frame[p].order)
       IN  \E stored \in BOOLEAN :
             IF stored
             THEN /\ table' = PutItem(table, OrderToItem(order))
                  /\ frame' = [frame EXCEPT ![p].log = Append(@, "put_order"),
                                            ![p].ret = Some(Ok([code |-> 201,
                                                                order_id |-> order.order_id,
                                                                status |-> order.status,
                                                                mexc_order_id |-> order.mexc_order_id]))]
             ELSE /\ table' = table
                  /\ frame' = [frame EXCEPT ![p].log = Append(@, "put_order"),
                                            ![p].ret = Some(Err([code |-> 500, msg |-> "Storage error"]))]
    /\ pc' = [pc EXCEPT ![p] = "done"]
    /\ UNCHANGED <<now, uuids>>

\* a variant that reports the storage error when the best-effort write fails
ApiCreatePutErrorStrict(p) ==
    /\ pc[p] = "api_put_error"
    /\ \E stored \in BOOLEAN :
         /\ table' = IF stored THEN PutItem(table, OrderToItem(Unwrap(frame[p].order))) ELSE table
         /\ frame' = [frame EXCEPT ![p].log = Append(@, "put_order"),
                                   ![p].ret = Some(Err(IF stored
                                       THEN [code |-> 502, msg |-> Unwrap(frame[p].resp).err]
                                       ELSE [code |-> 500, msg |-> "Storage error"]))]
    /\ pc' = [pc EXCEPT ![p] = "done"]
    /\ UNCHANGED <<now, uuids>>

\* lines 75-77: let _ = put_order(&order).await; the exchange's error is returned
ApiCreatePutError(p) ==
    /\ pc[p] = "api_put_error"
    /\ \E stored \in BOOLEAN :
         table' = IF stored THEN PutItem(table, OrderToItem(Unwrap(frame[p].order))) ELSE table
    /\ frame' = [frame EXCEPT ![p].log = Append(@, "put_order"),
                              ![p].ret = Some(Err([code |-> 502, msg |-> Unwrap(frame[p].resp).err]))]
    /\ pc' = [pc EXCEPT ![p] = "done"]
    /\ UNCHANGED <<now, uuids>>

(* ---------------------- api/trading.rs: get_order ----------------------- *)
\* the order ids a caller may ask for: every uuid, and decimal strings
LookupIds == {UuidString(n) : n \in 1..MaxSerialUuid} \cup {Digits(t) : t \in 1..MaxTime}

\* the rows of one owner that hold an Order with this order_id
OrderRowsOf(tbl, user_id, order_id) ==
    {k \in DOMAIN tbl : /\ k[1] = user_id
                        /\ BeginsWith(k[2], OrderPrefix)
                        /\ HasS(tbl[k], "order_id")
                        /\ tbl[k].order_id.v = order_id}

\* lines 83-106: one store lookup, mapped to 200 / 404 / 500;
\* arg keeps what the table held for (user, order_id) when it was read
ApiGetOrder(p, user, order_id) ==
    /\ pc[p] = "idle"
    /\ LET got == GetOrder(table, user, order_id)
       IN  frame' = [frame EXCEPT ![p] =
               [IdleFrame EXCEPT !.op = "get_order",
                                 !.user = user,
                                 !.arg = Some([order_id |-> order_id,
                                               rows |-> {table[k] : k \in OrderRowsOf(table, user, order_id)}]),
                                 !.log = <<"get_order">>,
                                 !.ret = Some(IF ~got.ok THEN Err([code |-> 500, msg |-> got.err])
                                              ELSE IF IsSome(got.val)
                                              THEN Ok([code |-> 200, order |-> Unwrap(got.val)])
                                              ELSE Err([code |-> 404, msg |-> "Order not found"]))]]
    /\ pc' = [pc EXCEPT ![p] = "done"]
    /\ UNCHANGED <<table, now, uuids>>

(* --------------------- api/trading.rs: cancel_order --------------------- *)
\* mexc/models.rs cancel_order: the exchange accepts the cancellation or fails
CancelOrderOutcomes ==
    {Ok("cancelled")} \cup {Err(e) : e \in {"transport", "Failed to cancel order: 400"}}

\* lines 114-119 and 136-138: the Order is read; 500 / 404 / 400 end the request
ApiCancelStart(p, user, order_id) ==
    /\ pc[p] = "idle"
    /\ LET got == GetOrder(table, user, order_id)
           fr == [IdleFrame EXCEPT !.op = "cancel_order",
                                   !.user = user,
                                   !.arg = Some([order_id |-> order_id]),
                                   !.log = <<"get_order">>]
       IN  IF ~got.ok
           THEN /\ frame' = [frame EXCEPT ![p] =
                       [fr EXCEPT !.ret = Some(Err([code |-> 500, msg |-> got.err]))]]
                /\ pc' = [pc EXCEPT ![p] = "done"]
           ELSE IF ~IsSome(got.val)
           THEN /\ frame' = [frame EXCEPT ![p] =
                       [fr EXCEPT !.ret = Some(Err([code |-> 404, msg |-> "Order not found"]))]]
                /\ pc' = [pc EXCEPT ![p] = "done"]
           ELSE IF ~IsSome(Unwrap(got.val).mexc_order_id)
           THEN /\ frame' = [frame EXCEPT ![p] =
                       [fr EXCEPT !.order = got.val,
                                  !.ret = Some(Err([code |-> 400, msg |-> "Order not yet sent to MEXC"]))]]
                /\ pc' = [pc EXCEPT ![p] = "done"]
           ELSE /\ frame' = [frame EXCEPT ![p] = [fr EXCEPT !.order = got.val]]
                /\ pc' = [pc EXCEPT ![p] = "cancel_exchange"]
    /\ UNCHANGED <<table, now, uuids>>

\* a variant that stores the Order as cancelled once the exchange accepted
ApiCancelExchangeMarksCancelled(p) ==
    /\ pc[p] = "cancel_exchange"
    /\ \E out \in CancelOrderOutcomes :
         /\ frame' = [frame EXCEPT ![p].log = Append(@, "cancel_order"),
                                   ![p].resp = Some(out),
                                   ![p].ret = Some(IF out.ok
                                                   THEN Ok([code |-> 200, status |-> "cancelled"])
                                                   ELSE Err([code |-> 502, msg |-> out.err]))]
         /\ table' = IF out.ok
                     THEN PutItem(table, OrderToItem([Unwrap(frame[p].order) EXCEPT !.status = "cancelled"]))
                     ELSE table
    /\ pc' = [pc EXCEPT ![p] = "done"]
    /\ UNCHANGED <<now, uuids>>

\* lines 121-135: the exchange is asked to cancel; nothing is written back
ApiCancelExchange(p) ==
    /\ pc[p] = "cancel_exchange"
    /\ \E out \in CancelOrderOutcomes :
         frame' = [frame EXCEPT ![p].log = Append(@, "cancel_order"),
                                ![p].resp = Some(out),
                                ![p].ret = Some(IF out.ok
                                                THEN Ok([code |-> 200, status |-> "cancelled"])
                                                ELSE Err([code |-> 502, msg |-> out.err]))]
    /\ pc' = [pc EXCEPT ![p] = "done"]
    /\ UNCHANGED <<table, now, uuids>>

\* concurrent snipes: the clock, event detection and execute_snipe invocations
\* in flight together
Next ==
    \/ Tick
    \/ uuids < MaxUuid /\ \E u \in Users, lt \in LaunchTimes : DetectEvent(u, lt)
    \/ \E p \in Procs : Return(p)
    \/ uuids < MaxUuid /\ \E p \in Procs, e \in StoredEvents : SnipeStart(p, e, "BUY", 1)
    \/ \E p \in Procs : SnipeExchange(p)
    \/ \E p \in Procs : SnipePutOrder(p)
    \/ \E p \in Procs : SnipePutEvent(p)

Spec == Init /\ [][Next]_vars

\* every operation of the core, one request being served at a time
Serial == CHOOSE p \in Procs : \A q \in Procs : p <= q

NextApi ==
    \/ Tick
    \/ uuids < MaxSerialUuid /\ \E u \in Users, lt \in LaunchTimes : DetectEvent(u, lt)
    \/ Return(Serial)
    \/ uuids < MaxSerialUuid /\ \E e \in StoredEvents, q \in Quantities : SnipeStart(Serial, e, "BUY", q)
    \/ SnipeExchange(Serial)
    \/ SnipePutOrder(Serial)
    \/ SnipePutEvent(Serial)
    \/ uuids < MaxSerialUuid /\ \E u \in Users, q \in Quantities : ApiCreateStart(Serial, u, q, Some(1))
    \/ ApiCreateExchange(Serial)
    \/ ApiCreatePutOrder(Serial)
    \/ ApiCreatePutError(Serial)
    \/ \E u \in Users, id \in LookupIds : ApiGetOrder(Serial, u, id)
    \/ \E u \in Users, id \in LookupIds : ApiCancelStart(Serial, u, id)
    \/ ApiCancelExchange(Serial)

SpecApi == Init /\ [][NextApi]_vars

(* ------------- the store used directly: puts, schema drift ------------- *)
\* the records a caller of the store writes
StoreUuids == {1, 2}
StoreTimes == {1, 2}
StoreLaunchTimes == {7, 12}

StoreOrders ==
    {[OrderItemNew(u, "ETHUSDT", "BUY", "LIMIT", 1, Some(1), id, t) EXCEPT !.status = st] :
        u \in Users, id \in StoreUuids, t \in StoreTimes, st \in {"pending", "open"}}

StorePositions ==
    {[PositionItemNew(u, "ETHUSDT", 100, 2, "long", id, CHOOSE t \in StoreTimes : \A x \in StoreTimes : t <= x)
         EXCEPT !.status = st] :
        u \in Users, id \in StoreUuids, st \in {"open", "closed"}}

DetectedEvents ==
    {CalendarEventItemNew(u, "TOKEN", "ETHUSDT", lt, "sts:2", 95,
                          CHOOSE id \in StoreUuids : \A x \in StoreUuids : id <= x,
                          CHOOSE t \in StoreTimes : \A x \in StoreTimes : t <= x) :
        u \in Users, lt \in StoreLaunchTimes}

StoreEvents ==
    DetectedEvents \cup
    {UpdatedEvent(e, [order_id |-> UuidString(id)], t) :
        e \in DetectedEvents, id \in {CHOOSE i \in StoreUuids : \A x \in StoreUuids : i <= x},
        t \in {CHOOSE i \in StoreTimes : \A x \in StoreTimes : i <= x}}

\* one put of the store: the item replaces what its key held; the frame keeps
\* what was written and whether a row was replaced
StorePut(op, item) ==
    /\ Cardinality((DOMAIN table) \cup {ItemKey(item)}) <= MaxRows
    /\ table' = PutItem(table, item)
    /\ frame' = [frame EXCEPT ![Serial] =
           [IdleFrame EXCEPT !.op = op,
                             !.user = item.user_id.v,
                             !.arg = Some([item |-> item, replaced |-> ItemKey(item) \in DOMAIN table]),
                             !.log = <<op>>,
                             !.ret = Some(Ok("unit"))]]
    /\ UNCHANGED <<now, uuids, pc>>

StorePutOrder(order) == StorePut("put_order", OrderToItem(order))
StorePutPosition(position) == StorePut("put_position", PositionToItem(position))
StorePutCalendarEvent(event) == StorePut("put_calendar_event", CalendarEventToItem(event))

\* schema drift: a row as another version of the schema left it, one decoded
\* attribute missing or held in another representation
DriftFields == {"quantity", "status", "price", "entry_price", "confidence", "executed_orders"}
Retyped(attr) ==
    IF attr.t = "S" THEN [attr EXCEPT !.t = "N"]
    ELSE IF attr.t = "N" THEN [attr EXCEPT !.t = "S"]
    ELSE [attr EXCEPT !.t = "L"]

StoreItems ==
    {OrderToItem(o) : o \in StoreOrders} \cup {PositionToItem(x) : x \in StorePositions}
        \cup {CalendarEventToItem(e) : e \in StoreEvents}

StoreDrift(k, field, drop) ==
    /\ k \in DOMAIN table
    /\ \A j \in DOMAIN table : table[j] \in StoreItems
    /\ field \in DOMAIN table[k]
    /\ table' = [table EXCEPT ![k] =
           IF drop THEN [a \in (DOMAIN table[k]) \ {field} |-> table[k][a]]
           ELSE [table[k] EXCEPT ![field] = Retyped(@)]]
    /\ UNCHANGED <<now, uuids, pc, frame>>

\* callers writing Orders, Positions and CalendarEvents through the store
NextStore ==
    \/ \E o \in StoreOrders : StorePutOrder(o)
    \/ \E x \in StorePositions : StorePutPosition(x)
    \/ \E e \in StoreEvents : StorePutCalendarEvent(e)

SpecStore == Init /\ [][NextStore]_vars

\* the same callers, and rows that drift from the schema the decoders expect
NextDrift ==
    \/ \E o \in StoreOrders : StorePutOrder(o)
    \/ \E x \in StorePositions : StorePutPosition(x)
    \/ \E e \in StoreEvents : StorePutCalendarEvent(e)
    \/ \E k \in DOMAIN table, field \in DriftFields, drop \in BOOLEAN : StoreDrift(k, field, drop)

SpecDrift == Init /\ [][NextDrift]_vars

(* ------------------------- trading/detector.rs -------------------------- *)
\* confidences are counted in hundredths: 0.95 is 95
PatternDetectorNew(min_confidence) == [min_confidence |-> min_confidence]

IsSts2Pattern(detector, token, intervals) ==
    Len(intervals) >= 3 /\ detector.min_confidence >= 90

\* a variant that accepts two or more intervals
IsSt2PatternAtLeastTwo(detector, token, intervals) ==
    Len(intervals) >= 2 /\ detector.min_confidence >= 80

IsSt2Pattern(detector, token, intervals) ==
    Len(intervals) >= 2 /\ Len(intervals) < 3 /\ detector.min_confidence >= 80

IsTt4Pattern(detector, token, intervals) ==
    Len(intervals) = 4 /\ detector.min_confidence >= 70

DetectPattern(detector, token, intervals) ==
    IF IsSts2Pattern(detector, token, intervals)
    THEN Some([pattern_type |-> "sts:2", confidence |-> 95])
    ELSE IF IsSt2Pattern(detector, token, intervals)
    THEN Some([pattern_type |-> "st:2", confidence |-> 85])
    ELSE IF IsTt4Pattern(detector, token, intervals)
    THEN Some([pattern_type |-> "tt:4", confidence |-> 75])
    ELSE None

(* ------------- trading/sniper.rs: should_execute_snipe ----------------- *)
\* a variant that asks for more than the threshold
ShouldExecuteSnipeAbove(pattern_confidence) == pattern_confidence > 70

ShouldExecuteSnipe(pattern_confidence) == pattern_confidence >= 70

(* ------------- the detector and the gate called by a scanner ------------ *)
Confidences == {0, 69, 70, 75, 79, 80, 85, 89, 90, 95, 100}
IntervalValues == {1000, 3000}
IntervalSeqs == UNION {[1..n -> IntervalValues] : n \in 0..MaxIntervals}

\* a detector has been constructed with some minimum confidence
InitDetector ==
    /\ table = NoAttrs
    /\ now = 1
    /\ uuids = 0
    /\ pc = [p \in Procs |-> "idle"]
    /\ \E m \in Confidences :
         frame = [p \in Procs |->
                    IF p = Serial
                    THEN [IdleFrame EXCEPT !.arg = Some([detector |-> PatternDetectorNew(m)])]
                    ELSE IdleFrame]

DetectPatternCall(p, token, intervals) ==
    /\ pc[p] = "idle"
    /\ LET detector == Unwrap(frame[p].arg).detector
       IN  frame' = [frame EXCEPT ![p] =
               [IdleFrame EXCEPT !.op = "detect_pattern",
                                 !.user = token,
                                 !.arg = Some([detector |-> detector, intervals |-> intervals]),
                                 !.ret = Some(DetectPattern(detector, token, intervals))]]
    /\ pc' = [pc EXCEPT ![p] = "done"]
    /\ UNCHANGED <<table, now, uuids>>

ShouldExecuteSnipeCall(p, pattern_confidence) ==
    /\ pc[p] = "idle"
    /\ frame' = [frame EXCEPT ![p] =
           [IdleFrame EXCEPT !.op = "should_execute_snipe",
                             !.arg = Some([detector |-> Unwrap(frame[p].arg).detector,
                                           pattern_confidence |-> pattern_confidence]),
                             !.ret = Some(ShouldExecuteSnipe(pattern_confidence))]]
    /\ pc' = [pc EXCEPT ![p] = "done"]
    /\ UNCHANGED <<table, now, uuids>>

\* the call returns; the detector stays as it was constructed
DetectorReturn(p) ==
    /\ pc[p] = "done"
    /\ pc' = [pc EXCEPT ![p] = "idle"]
    /\ frame' = [frame EXCEPT ![p] =
           [IdleFrame EXCEPT !.arg = Some([detector |-> Unwrap(frame[p].arg).detector])]]
    /\ UNCHANGED <<table, now, uuids>>

NextDetector ==
    \/ \E intervals \in IntervalSeqs : DetectPatternCall(Serial, "VFARM", intervals)
    \/ \E c \in Confidences : ShouldExecuteSnipeCall(Serial, c)
    \/ DetectorReturn(Serial)
    \/ uuids < MaxSerialUuid /\ \E u \in Users, lt \in LaunchTimes : DetectEvent(u, lt)

SpecDetector == InitDetector /\ [][NextDetector]_vars

(* --------------- storage/models.rs: calculate_pnl ---------------------- *)
RECURSIVE Gcd(_, _)
Gcd(a, b) == IF b = 0 THEN a ELSE Gcd(b, a % b)
Abs(x) == IF x < 0 THEN -x ELSE x

\* f64 division: a quotient kept exact as a reduced fraction; division by
\* zero gives an infinity or NaN
F64Div(a, b) ==
    IF b = 0
    THEN IF a = 0 THEN [kind |-> "nan"] ELSE [kind |-> "inf", negative |-> a < 0]
    ELSE LET g == Gcd(Abs(a), Abs(b))
             sign == IF b < 0 THEN -1 ELSE 1
         IN  [kind |-> "num", num |-> sign * (a \div g), den |-> sign * (b \div g)]

\* f64 multiplication of a quotient by a whole number
F64Scale(q, k) ==
    IF q.kind # "num" THEN q
    ELSE LET g == Gcd(Abs(q.num * k), q.den)
         IN  [kind |-> "num", num |-> (q.num * k) \div g, den |-> q.den \div g]

PriceDiff(position, current_price) ==
    IF position.side = "long" THEN current_price - position.entry_price
    ELSE IF position.side = "short" THEN position.entry_price - current_price
    ELSE 0

\* a variant that leaves the percentage as it was
CalculatePnlAmountOnly(position, current_price, t) ==
    [position EXCEPT !.current_price = current_price,
                     !.pnl = Some(PriceDiff(position, current_price) * position.quantity),
                     !.updated_at = t]

CalculatePnl(position, current_price, t) ==
    [position EXCEPT !.current_price = current_price,
                     !.pnl = Some(PriceDiff(position, current_price) * position.quantity),
                     !.pnl_percentage = Some(F64Scale(F64Div(PriceDiff(position, current_price),
                                                             position.entry_price), 100)),
                     !.updated_at = t]

(* ------------------------- trading/manager.rs --------------------------- *)
EntryPrices == {0, 100}
CurrentPrices == {90, 110}
Sides == {"long", "short", "flat"}

\* lines 16-30: the Position is constructed
OpenPositionStart(p, user, entry_price, quantity, side) ==
    /\ pc[p] = "idle"
    /\ uuids' = uuids + 1
    /\ frame' = [frame EXCEPT ![p] =
           [IdleFrame EXCEPT !.op = "open_position",
                             !.user = user,
                             !.arg = Some([position |-> PositionItemNew(user, "ETHUSDT", entry_price,
                                                                        quantity, side, uuids + 1, now)])]]
    /\ pc' = [pc EXCEPT ![p] = "open_put"]
    /\ UNCHANGED <<table, now>>

\* a variant that returns the position id whether or not the write succeeded
OpenPositionPutAlwaysOk(p) ==
    /\ pc[p] = "open_put"
    /\ LET position == Unwrap(frame[p].arg).position
       IN  /\ \E stored \in BOOLEAN :
                table' = IF stored THEN PutItem(table, PositionToItem(position)) ELSE table
           /\ frame' = [frame EXCEPT ![p].log = Append(@, "put_position"),
                                     ![p].ret = Some(Ok(position.position_id))]
    /\ pc' = [pc EXCEPT ![p] = "done"]
    /\ UNCHANGED <<now, uuids>>

\* lines 32-37: put_position(&position).await?; Ok(position_id)
OpenPositionPut(p) ==
    /\ pc[p] = "open_put"
    /\ LET position == Unwrap(frame[p].arg).position
       IN  \E stored \in BOOLEAN :
             IF stored
             THEN /\ table' = PutItem(table, PositionToItem(position))
                  /\ frame' = [frame EXCEPT ![p].log = Append(@, "put_position"),
                                            ![p].ret = Some(Ok(position.position_id))]
             ELSE /\ table' = table
                  /\ frame' = [frame EXCEPT ![p].log = Append(@, "put_position"),
                                            ![p].ret = Some(Err("storage"))]
    /\ pc' = [pc EXCEPT ![p] = "done"]
    /\ UNCHANGED <<now, uuids>>

\* the position ids a caller may name
PositionIds == {UuidString(n) : n \in 1..MaxPositions}

\* lines 41-58: the three steps are TODO comments; the call logs and returns Ok(())
UpdatePositionPrice(p, user, position_id, current_price) ==
    /\ pc[p] = "idle"
    /\ frame' = [frame EXCEPT ![p] =
           [IdleFrame EXCEPT !.op = "update_position_price",
                             !.user = user,
                             !.arg = Some([position_id |-> position_id,
                                           current_price |-> current_price]),
                             !.ret = Some(Ok("unit"))]]
    /\ pc' = [pc EXCEPT ![p] = "done"]
    /\ UNCHANGED <<table, now, uuids>>

\* lines 61-74: the three steps are TODO comments; the call logs and returns Ok(0.0)
ClosePosition(p, user, position_id, close_price) ==
    /\ pc[p] = "idle"
    /\ frame' = [frame EXCEPT ![p] =
           [IdleFrame EXCEPT !.op = "close_position",
                             !.user = user,
                             !.arg = Some([position_id |-> position_id,
                                           close_price |-> close_price]),
                             !.ret = Some(Ok(0))]]
    /\ pc' = [pc EXCEPT ![p] = "done"]
    /\ UNCHANGED <<table, now, uuids>>

\* lines 77-79: get_open_positions hands the caller the decoded Positions
GetOpenPositions(p, user) ==
    /\ pc[p] = "idle"
    /\ frame' = [frame EXCEPT ![p] =
           [IdleFrame EXCEPT !.op = "get_open_positions",
                             !.user = user,
                             !.log = <<"query_open_positions">>,
                             !.ret = Some(QueryOpenPositions(table, user))]]
    /\ pc' = [pc EXCEPT ![p] = "done"]
    /\ UNCHANGED <<table, now, uuids>>

\* the caller marks one of the Positions it holds to a price: calculate_pnl;
\* resp keeps the call and the Position as it was before
CalculatePnlCall(p, n, current_price) ==
    /\ pc[p] = "done"
    /\ frame[p].op = "get_open_positions"
    /\ Unwrap(frame[p].ret).ok
    /\ n \in 1..Len(Unwrap(frame[p].ret).val)
    /\ LET held == Unwrap(frame[p].ret).val
       IN  frame' = [frame EXCEPT
               ![p].resp = Some([index |-> n, current_price |-> current_price, before |-> held[n]]),
               ![p].ret = Some(Ok([held EXCEPT ![n] = CalculatePnl(held[n], current_price, now)]))]
    /\ UNCHANGED <<table, now, uuids, pc>>

\* the position manager serving one caller at a time
NextPosition ==
    \/ Tick
    \/ Return(Serial)
    \/ uuids < MaxPositions
          /\ \E u \in Users, e \in EntryPrices, s \in Sides : OpenPositionStart(Serial, u, e, 2, s)
    \/ OpenPositionPut(Serial)
    \/ \E u \in Users, id \in PositionIds, c \in CurrentPrices : UpdatePositionPrice(Serial, u, id, c)
    \/ \E u \in Users, id \in PositionIds, c \in CurrentPrices : ClosePosition(Serial, u, id, c)
    \/ \E u \in Users : GetOpenPositions(Serial, u)
    \/ \E n \in 1..MaxPositions, c \in CurrentPrices : CalculatePnlCall(Serial, n, c)

SpecPosition == Init /\ [][NextPosition]_vars

(* ---------------- mexc/models.rs: the exchange client ------------------ *)
\* the characters of query strings and keys, in byte order
AsciiOrder ==
    << "&", "-", ".", "0", "1", "2", "3", "4", "5", "6", "7", "8", "9",
       "=", "A", "B", "C", "D", "E", "F", "G", "H", "I", "J", "K", "L",
       "M", "N", "O", "P", "Q", "R", "S", "T", "U", "V", "W", "X", "Y",
       "Z", "_", "a", "b", "c", "d", "e", "f", "g", "h", "i", "j", "k",
       "l", "m", "n", "o", "p", "q", "r", "s", "t", "u", "v", "w", "x",
       "y", "z" >>
AsciiCode(c) == CHOOSE i \in 1..Len(AsciiOrder) : AsciiOrder[i] = c

\* Ord of String: byte-wise lexicographic, the iteration order of a BTreeMap
RECURSIVE KeyLess(_, _)
KeyLess(a, b) ==
    IF b = <<>> THEN FALSE
    ELSE IF a = <<>> THEN TRUE
    ELSE IF a[1] # b[1] THEN AsciiCode(a[1]) < AsciiCode(b[1])
    ELSE KeyLess(Tail(a), Tail(b))

\* f64::to_string of a whole number
F64ToString(x) == IF x < 0 THEN <<"-">> \o Digits(-x) ELSE Digits(x)

\* BTreeMap::insert
MapInsert(params, key, value) ==
    [k \in (DOMAIN params) \cup {key} |-> IF k = key THEN value ELSE params[k]]

\* the keys of a map from the greatest down
RECURSIVE KeysDescending(_)
KeysDescending(keys) ==
    IF keys = {} THEN <<>>
    ELSE LET last == CHOOSE k \in keys : \A j \in keys : j = k \/ KeyLess(j, k)
         IN  <<last>> \o KeysDescending(keys \ {last})

\* BTreeMap::iter: the keys in ascending order
RECURSIVE KeysAscending(_)
KeysAscending(keys) ==
    IF keys = {} THEN <<>>
    ELSE LET first == CHOOSE k \in keys : \A j \in keys : j = k \/ KeyLess(k, j)
         IN  <<first>> \o KeysAscending(keys \ {first})

\* .map(|(k, v)| format!("{}={}", k, v)).collect::<Vec<_>>().join("&")
RECURSIVE JoinPairs(_, _)
JoinPairs(keys, params) ==
    IF keys = <<>> THEN <<>>
    ELSE Head(keys) \o <<"=">> \o params[Head(keys)]
         \o (IF Tail(keys) = <<>> THEN <<>> ELSE <<"&">> \o JoinPairs(Tail(keys), params))

\* a variant that serializes the parameters from the greatest key down
BuildQueryStringDescending(params) == JoinPairs(KeysDescending(DOMAIN params), params)

BuildQueryString(params) == JoinPairs(KeysAscending(DOMAIN params), params)

\* SHA-256 output size in bytes
DigestBytes == 32

\* weighted sum of the bytes of a string
RECURSIVE Weighted(_)
Weighted(str) == IF str = <<>> THEN 0 ELSE Len(str) * AsciiCode(str[Len(str)]) + Weighted(SubSeq(str, 1, Len(str) - 1))

\* HMAC-SHA256 stands as a keyed digest of DigestBytes bytes that depends on
\* the key and the message and on nothing else
HmacSha256(key, message) ==
    [i \in 1..DigestBytes |-> (31 * Weighted(key) + i * Weighted(message) + i * i + Len(message)) % 256]

\* hex::encode: two lowercase digits per byte
HexDigits == <<"0", "1", "2", "3", "4", "5", "6", "7", "8", "9", "a", "b", "c", "d", "e", "f">>
RECURSIVE HexEncode(_)
HexEncode(bytes) ==
    IF bytes = <<>> THEN <<>>
    ELSE <<HexDigits[(Head(bytes) \div 16) + 1], HexDigits[(Head(bytes) % 16) + 1]>>
         \o HexEncode(Tail(bytes))

\* a variant that mixes the clock into the signed bytes
CreateSignatureSalted(secret_key, query_string) ==
    HexEncode(HmacSha256(secret_key, query_string \o Digits(now)))

CreateSignature(secret_key, query_string) ==
    HexEncode(HmacSha256(secret_key, query_string))

\* the client's configuration
ApiKey == <<"K", "E", "Y">>
SecretKey == <<"s", "e", "c">>
ApiKeyHeader == "X-MEXC-APIKEY"

KeySymbol == <<"s", "y", "m", "b", "o", "l">>
KeySide == <<"s", "i", "d", "e">>
KeyType == <<"t", "y", "p", "e">>
KeyQuantity == <<"q", "u", "a", "n", "t", "i", "t", "y">>
KeyPrice == <<"p", "r", "i", "c", "e">>
KeyTimestamp == <<"t", "i", "m", "e", "s", "t", "a", "m", "p">>
KeyOrderId == <<"o", "r", "d", "e", "r", "I", "d">>
KeySignature == <<"s", "i", "g", "n", "a", "t", "u", "r", "e">>

\* lines 101-111: the parameters of create_order
CreateOrderParams(order, t) ==
    LET base == MapInsert(MapInsert(MapInsert(MapInsert(NoAttrs,
                    KeySymbol, order.symbol), KeySide, order.side),
                    KeyType, order.order_type), KeyQuantity, F64ToString(order.quantity))
        priced == IF IsSome(order.price)
                  THEN MapInsert(base, KeyPrice, F64ToString(Unwrap(order.price))) ELSE base
    IN  MapInsert(priced, KeyTimestamp, Digits(t))

\* lines 144-147 and 179-182: the parameters of get_order and cancel_order
OrderIdParams(symbol, order_id, t) ==
    MapInsert(MapInsert(MapInsert(NoAttrs, KeySymbol, symbol), KeyOrderId, order_id),
              KeyTimestamp, Digits(t))

\* format!("{}/api/v3/...?{}&signature={}", base_url, query_string, signature)
\* and .header("X-MEXC-APIKEY", &self.api_key)
SignedRequest(method, path, query_string) ==
    [ method |-> method,
      path |-> path,
      query |-> query_string \o <<"&">> \o KeySignature \o <<"=">>
                  \o CreateSignature(SecretKey, query_string),
      headers |-> [h \in {ApiKeyHeader} |-> ApiKey] ]

\* the request each operation of the client sends at time t
ClientRequest(op, args, t) ==
    CASE op = "get_ticker" ->
           [ method |-> "GET", path |-> "/api/v3/ticker/24hr",
             query |-> KeySymbol \o <<"=">> \o args.symbol,
             headers |-> [h \in {ApiKeyHeader} |-> ApiKey] ]
      [] op = "create_order" ->
           SignedRequest("POST", "/api/v3/order", BuildQueryString(CreateOrderParams(args, t)))
      [] op = "get_order" ->
           SignedRequest("GET", "/api/v3/order",
                         BuildQueryString(OrderIdParams(args.symbol, args.order_id, t)))
      [] op = "cancel_order" ->
           SignedRequest("DELETE", "/api/v3/order",
                         BuildQueryString(OrderIdParams(args.symbol, args.order_id, t)))
      [] op = "get_account_balance" ->
           SignedRequest("GET", "/api/v3/account", KeyTimestamp \o <<"=">> \o Digits(t))

\* what the exchange, or the network, answers
HttpStatuses == {[code |-> 200, text |-> "200 OK"], [code |-> 400, text |-> "400 Bad Request"]}
HttpBodies == {[text |-> "{json}", decodes |-> TRUE], [text |-> "rejected", decodes |-> FALSE]}
HttpOutcomes ==
    {[sent |-> FALSE]} \cup
    {[sent |-> TRUE, status |-> st, body |-> b] : st \in HttpStatuses, b \in HttpBodies}
IsSuccess(status) == status.code \in 200..299

\* response.json().await?
DecodeJson(body) == IF body.decodes THEN Ok(body.text) ELSE Err(<<"error decoding response body">>)

\* the Result each operation makes of the answer
ClientResult(op, http) ==
    IF ~http.sent THEN Err(<<"error sending request">>)
    ELSE CASE op = "get_ticker" -> DecodeJson(http.body)
           [] op = "create_order" ->
                IF ~IsSuccess(http.status) THEN Err(<<"MEXC API Error: ", http.body.text>>)
                ELSE DecodeJson(http.body)
           [] op = "get_order" ->
                IF ~IsSuccess(http.status) THEN Err(<<"Failed to query order: ", http.status.text>>)
                ELSE DecodeJson(http.body)
           [] op = "cancel_order" ->
                IF ~IsSuccess(http.status) THEN Err(<<"Failed to cancel order: ", http.status.text>>)
                ELSE DecodeJson(http.body)
           [] op = "get_account_balance" ->
                IF ~IsSuccess(http.status)
                THEN Err(<<"Failed to get account balance: ", http.status.text>>)
                ELSE DecodeJson(http.body)

\* the calls a user of the client makes
ClientSymbols == {<<"E", "T", "H", "U", "S", "D", "T">>, <<"B", "T", "C", "U", "S", "D", "T">>}
ExchangeOrderIds == {<<"m", "1">>}
ClientCalls ==
    {[op |-> "get_ticker", args |-> [symbol |-> sym]] : sym \in ClientSymbols}
    \cup {[op |-> "create_order",
           args |-> OrderRequest(sym, <<"B", "U", "Y">>, ty, 1, pr)] :
              sym \in ClientSymbols,
              ty \in {<<"L", "I", "M", "I", "T">>}, pr \in {None, Some(2)}}
    \cup {[op |-> o, args |-> [symbol |-> sym, order_id |-> id]] :
              o \in {"get_order", "cancel_order"}, sym \in ClientSymbols, id \in ExchangeOrderIds}
    \cup {[op |-> "get_account_balance", args |-> NoAttrs]}
SignInputs == {<<>>, <<"a">>, <<"s", "y", "m", "b", "o", "l", "=", "E", "T", "H", "&", "t", "y", "p", "e", "=", "L", "I", "M", "I", "T">>}

\* the request is built and sent
ClientSend(p, call) ==
    /\ pc[p] = "idle"
    /\ frame' = [frame EXCEPT ![p] =
           [IdleFrame EXCEPT !.op = call.op,
                             !.arg = Some([args |-> call.args,
                                           sent_at |-> now,
                                           request |-> ClientRequest(call.op, call.args, now)]),
                             !.log = <<"send">>]]
    /\ pc' = [pc EXCEPT ![p] = "client_await"]
    /\ UNCHANGED <<table, now, uuids>>

\* the answer arrives, or the send fails, and the operation returns
ClientReceive(p) ==
    /\ pc[p] = "client_await"
    /\ \E http \in HttpOutcomes :
         frame' = [frame EXCEPT ![p].resp = Some(http),
                                ![p].ret = Some(ClientResult(frame[p].op, http))]
    /\ pc' = [pc EXCEPT ![p] = "done"]
    /\ UNCHANGED <<table, now, uuids>>

\* create_signature called on a query string, as the unit test does
SignCall(p, query_string) ==
    /\ pc[p] = "idle"
    /\ frame' = [frame EXCEPT ![p] =
           [IdleFrame EXCEPT !.op = "create_signature",
                             !.arg = Some([secret_key |-> SecretKey, query_string |-> query_string]),
                             !.ret = Some(CreateSignature(SecretKey, query_string))]]
    /\ pc' = [pc EXCEPT ![p] = "done"]
    /\ UNCHANGED <<table, now, uuids>>

\* one user of the client's operations, and callers of create_signature
NextClient ==
    \/ Tick
    \/ \E p \in Procs : Return(p)
    \/ \E call \in ClientCalls : ClientSend(Serial, call)
    \/ ClientReceive(Serial)
    \/ \E p \in Procs, q \in SignInputs : SignCall(p, q)

SpecClient == Init /\ [][NextClient]_vars

(* ------------------------------- claims --------------------------------- *)
SnipeProcs == {p \in Procs : frame[p].op = "execute_snipe"}
CalendarKeys(tbl) == {k \in DOMAIN tbl : BeginsWith(k[2], CalendarPrefix)}
OrderKeys(tbl) == {k \in DOMAIN tbl : BeginsWith(k[2], OrderPrefix)}
SeqRange(q) == {q[i] : i \in 1..Len(q)}
IsPrefixOf(a, b) == Len(a) <= Len(b) /\ \A i \in 1..Len(a) : a[i] = b[i]

\* C1: within one execute_snipe the exchange call precedes every store write
\* and the Order write precedes the CalendarEvent write; and in every store
\* state each order id listed by a sniped CalendarEvent has an Order row of
\* the same owner.
C1_OrderWrittenBeforeEvent ==
    /\ \A p \in SnipeProcs :
         IsPrefixOf(frame[p].log, <<"create_order", "put_order", "put_calendar_event">>)
    /\ \A k \in CalendarKeys(table) :
         ItemToCalendarEvent(table[k]).val.status = "sniped" =>
             \A id \in SeqRange(ItemToCalendarEvent(table[k]).val.executed_orders) :
                 OrderRowsOf(table, k[1], id) # {}

\* a sniped event is stored while another invocation's event write has failed
C1_Witness ==
    /\ \E k \in CalendarKeys(table) : table[k].status.v = "sniped"
    /\ \E p \in SnipeProcs :
         /\ pc[p] = "done"
         /\ frame[p].ret = Some(Err("storage"))
         /\ frame[p].log = <<"create_order", "put_order", "put_calendar_event">>

\* C2: when the exchange call and both writes of an execute_snipe on a
\* detected event succeed, the store then holds exactly one Order row for
\* the new order id, with the exchange's status and order id, and exactly one
\* CalendarEvent row for the event, sniped and listing the new order id; the
\* order id is what is returned.
C2_SnipeSuccess ==
    [][\A p \in Procs :
         (/\ pc[p] = "snipe_put_event"
          /\ pc'[p] = "done"
          /\ frame'[p].ret # Some(Err("storage"))
          /\ Unwrap(frame[p].event).status = "detected")
         => LET order == Unwrap(frame[p].order)
                event == Unwrap(frame[p].event)
                resp == Unwrap(frame[p].resp).val
                orows == OrderRowsOf(table', frame[p].user, order.order_id)
                erows == {k \in CalendarKeys(table') :
                              k[1] = event.user_id /\ table'[k].event_id.v = event.event_id}
            IN  /\ frame'[p].ret = Some(Ok(order.order_id))
                /\ Cardinality(orows) = 1
                /\ \A k \in orows :
                     /\ ItemToOrder(table'[k]).val.status = resp.status
                     /\ ItemToOrder(table'[k]).val.mexc_order_id = Some(resp.order_id)
                /\ Cardinality(erows) = 1
                /\ \A k \in erows :
                     /\ ItemToCalendarEvent(table'[k]).val.status = "sniped"
                     /\ order.order_id \in SeqRange(ItemToCalendarEvent(table'[k]).val.executed_orders)
    ]_vars

\* an execute_snipe on a detected event has returned an order id
C2_Witness ==
    \E p \in SnipeProcs :
        /\ pc[p] = "done"
        /\ Unwrap(frame[p].event).status = "detected"
        /\ frame[p].ret = Some(Ok(Unwrap(frame[p].order).order_id))

\* C3: when the exchange call of an execute_snipe fails, the invocation ends
\* with that error, having made no store write: the table (and with it the
\* stored CalendarEvent) is unchanged, and so is the caller's event value.
C3_ExchangeFailureLeavesStore ==
    [][\A p \in Procs :
         (pc[p] = "snipe_exchange" /\ pc'[p] # "snipe_exchange" /\ ~Unwrap(frame'[p].resp).ok)
         => /\ pc'[p] = "done"
            /\ frame'[p].ret = Some(Err(Unwrap(frame'[p].resp).err))
            /\ frame'[p].log = <<"create_order">>
            /\ frame'[p].event = frame[p].event
            /\ table' = table
    ]_vars

\* an execute_snipe has ended with the exchange's error while its event is
\* stored with status detected
C3_Witness ==
    \E p \in SnipeProcs :
        /\ pc[p] = "done"
        /\ \E e \in ExchangeErrors : frame[p].ret = Some(Err(e))
        /\ \E k \in CalendarKeys(table) :
             /\ table[k].event_id.v = Unwrap(frame[p].event).event_id
             /\ table[k].status.v = "detected"

\* C4: get_order(owner, order_id) answers with the stored Order when the
\* owner's partition holds an Order row with that order_id, and with
\* not-found when it holds none.
C4_GetOrderRoundTrip ==
    \A p \in Procs :
        (pc[p] = "done" /\ frame[p].op = "get_order")
        => LET rows == Unwrap(frame[p].arg).rows
           IN  IF rows = {}
               THEN frame[p].ret = Some(Err([code |-> 404, msg |-> "Order not found"]))
               ELSE \E r \in rows :
                        frame[p].ret = Some(Ok([code |-> 200, order |-> ItemToOrder(r).val]))

\* C5: once a stored CalendarEvent has status sniped or missed, no step
\* changes its status, execution_time or executed_orders.
C5_TerminalEventUnchanged ==
    [][\A k \in CalendarKeys(table) :
         table[k].status.v \in {"sniped", "missed"}
         => /\ k \in DOMAIN table'
            /\ ItemToCalendarEvent(table'[k]).val.status = ItemToCalendarEvent(table[k]).val.status
            /\ ItemToCalendarEvent(table'[k]).val.execution_time
                   = ItemToCalendarEvent(table[k]).val.execution_time
            /\ ItemToCalendarEvent(table'[k]).val.executed_orders
                   = ItemToCalendarEvent(table[k]).val.executed_orders
    ]_vars

\* number of entries of a log that are the call x
RECURSIVE Count(_, _)
Count(log, x) ==
    IF log = <<>> THEN 0 ELSE (IF Head(log) = x THEN 1 ELSE 0) + Count(Tail(log), x)

OrderPlacingProcs == {p \in Procs : frame[p].op \in {"execute_snipe", "create_order"}}

C7_EventStatusFields ==
    \A k \in CalendarKeys(table) :
        LET e == ItemToCalendarEvent(table[k]).val
        IN  /\ e.status = "sniped" => (e.executed_orders # <<>> /\ IsSome(e.execution_time))
            /\ e.status = "detected" => (e.executed_orders = <<>> /\ ~IsSome(e.execution_time))

\* the store holds a sniped and a detected event
C7_Witness ==
    /\ \E k \in CalendarKeys(table) : table[k].status.v = "sniped"
    /\ \E k \in CalendarKeys(table) : table[k].status.v = "detected"

\* C8: every Order, in memory or stored, has 0 <= filled_qty <= quantity.
C8_FilledWithinQuantity ==
    /\ \A p \in Procs :
         IsSome(frame[p].order) =>
             /\ 0 <= Unwrap(frame[p].order).filled_qty
             /\ Unwrap(frame[p].order).filled_qty <= Unwrap(frame[p].order).quantity
    /\ \A k \in OrderKeys(table) :
         /\ 0 <= table[k].filled_qty.v
         /\ table[k].filled_qty.v <= table[k].quantity.v

\* C9: an order-placing operation given a non-positive quantity ends with an
\* error before any exchange call or store write.
C9_NonPositiveQuantityRejected ==
    \A p \in OrderPlacingProcs :
        Unwrap(frame[p].arg).quantity <= 0
        => /\ pc[p] = "done"
           /\ frame[p].log = <<>>
           /\ ~Unwrap(frame[p].ret).ok

\* C10: when the exchange call of a create-order request fails, the Order is
\* marked status error with the exchange's message, put_order is attempted
\* once, and the request ends with the exchange's error whether or not the
\* write succeeded.
C10_ExchangeErrorBestEffort ==
    \A p \in Procs :
        (/\ frame[p].op = "create_order"
         /\ IsSome(frame[p].resp)
         /\ ~Unwrap(frame[p].resp).ok)
        => LET order == Unwrap(frame[p].order)
               e == Unwrap(frame[p].resp).err
           IN  /\ order.status = "error"
               /\ order.error_message = Some(e)
               /\ \A k \in OrderRowsOf(table, frame[p].user, order.order_id) :
                      table[k] = OrderToItem(order)
               /\ pc[p] \in {"api_put_error", "done"}
               /\ pc[p] = "api_put_error" => frame[p].log = <<"create_order">>
               /\ pc[p] = "done" =>
                      /\ frame[p].log = <<"create_order", "put_order">>
                      /\ frame[p].ret = Some(Err([code |-> 502, msg |-> e]))

\* a create-order request has ended with the exchange's error although the
\* write of the error record failed
C10_Witness ==
    \E p \in Procs :
        /\ pc[p] = "done"
        /\ frame[p].op = "create_order"
        /\ IsSome(frame[p].resp)
        /\ ~Unwrap(frame[p].resp).ok
        /\ OrderRowsOf(table, frame[p].user, Unwrap(frame[p].order).order_id) = {}

\* position of a status in the lifecycle: pending, then what the exchange or
\* the failure made of it
StatusRank(status) == IF status = "pending" THEN 0 ELSE 1

C12_ErrorMessageImpliesErrorStatus ==
    /\ \A p \in Procs :
          (IsSome(frame[p].order) /\ IsSome(Unwrap(frame[p].order).error_message)
             /\ Unwrap(Unwrap(frame[p].order).error_message) # "")
          => Unwrap(frame[p].order).status = "error"
    /\ \A k \in OrderKeys(table) :
          (HasS(table[k], "error_message") /\ table[k].error_message.v # "")
          => table[k].status = S("error")

\* an Order refused by the exchange is stored with its message
C12_Witness ==
    \E k \in OrderKeys(table) :
        /\ HasS(table[k], "error_message")
        /\ table[k].error_message.v # ""
        /\ table[k].status = S("error")

\* what makes two stored rows the same record: owner, record type, entity id
\* and ordering timestamp, read from the attributes
RecordIdentity(item) ==
    LET ty == item.data_type.v
    IN  << item.user_id.v, ty,
           IF ty = "ORDER" THEN item.order_id.v
           ELSE IF ty = "POSITION" THEN item.position_id.v ELSE item.event_id.v,
           IF ty = "ORDER" THEN item.timestamp.v
           ELSE IF ty = "POSITION" THEN item.entry_time.v ELSE item.launch_time.v >>

\* C13: a put is an upsert: after it exactly one row holds the written
\* record (same owner, type, id and timestamp) and that row is the value just
\* written; a replay adds no row; every row of another record (another id,
\* type, timestamp or owner) is left as it was
C13_PutIsUpsert ==
    [][ LET put == Unwrap(frame'[Serial].arg)
            same == {k \in DOMAIN table' : RecordIdentity(table'[k]) = RecordIdentity(put.item)}
        IN  /\ Cardinality(same) = 1
            /\ \A k \in same : table'[k] = put.item
            /\ put.replaced <=> (\E k \in DOMAIN table :
                                   RecordIdentity(table[k]) = RecordIdentity(put.item))
            /\ Cardinality(DOMAIN table') =
                   Cardinality(DOMAIN table) + (IF put.replaced THEN 0 ELSE 1)
            /\ \A k \in DOMAIN table :
                   RecordIdentity(table[k]) # RecordIdentity(put.item)
                   => (k \in DOMAIN table' /\ table'[k] = table[k]) ]_vars

\* an Order written again over its own row, next to an Order of the same owner
\* and instant with another id
C13_Witness ==
    /\ frame[Serial].op = "put_order"
    /\ Unwrap(frame[Serial].arg).replaced
    /\ LET item == Unwrap(frame[Serial].arg).item
       IN  /\ table[ItemKey(item)] = item
           /\ \E k \in DOMAIN table :
                 /\ k # ItemKey(item)
                 /\ k[1] = item.user_id.v
                 /\ table[k].data_type = S("ORDER")
                 /\ table[k].timestamp = item.timestamp

\* the rows of one owner and one record type, by their attributes
RowsOfType(tbl, user_id, data_type) ==
    {tbl[k] : k \in {j \in DOMAIN tbl : /\ tbl[j].user_id = S(user_id)
                                          /\ tbl[j].data_type = S(data_type)}}

QueryStatuses == {"pending", "open", "closed", "detected"}
QueryTimes == {0, 7, 10, 12, 99}

\* C14: each range query returns, once each, exactly the records of the
\* asked owner and of its own type that satisfy the filter: Orders with the
\* asked status, Positions with status open, CalendarEvents whose launch_time
\* lies in [a, b]
C14_RangeQueriesScoped ==
    \A u \in Users :
        /\ \A st \in QueryStatuses :
              LET r == QueryOrdersByStatus(table, u, st)
                  rows == {i \in RowsOfType(table, u, "ORDER") : i.status = S(st)}
              IN  /\ r.ok
                  /\ Len(r.val) = Cardinality(rows)
                  /\ SeqRange(r.val) = {ItemToOrder(i).val : i \in rows}
        /\ LET r == QueryOpenPositions(table, u)
               rows == {i \in RowsOfType(table, u, "POSITION") : i.status = S("open")}
           IN  /\ r.ok
               /\ Len(r.val) = Cardinality(rows)
               /\ SeqRange(r.val) = {ItemToPosition(i).val : i \in rows}
        /\ \A a \in QueryTimes, b \in QueryTimes :
              LET r == CalendarEventsByTime(table, u, a, b)
                  rows == {i \in RowsOfType(table, u, "CALENDAR") :
                              a <= i.launch_time.v /\ i.launch_time.v <= b}
              IN  /\ r.ok
                  /\ Len(r.val) = Cardinality(rows)
                  /\ SeqRange(r.val) = {ItemToCalendarEvent(i).val : i \in rows}

\* an open Order and an open Position of one owner side by side: each query
\* returns its own
C14_Witness ==
    \E u \in Users :
        /\ Len(QueryOrdersByStatus(table, u, "open").val) = 1
        /\ Len(QueryOpenPositions(table, u).val) = 1

\* the fields the three record types always carry (the struct fields that
\* are not Option) and the representation put_* stores them in
OrderItemFields ==
    [S |-> {"user_id", "order_id", "symbol", "side", "order_type", "status",
            "created_at", "updated_at"},
     N |-> {"quantity", "filled_qty", "timestamp", "ttl"},
     Ss |-> {}]
PositionItemFields ==
    [S |-> {"user_id", "position_id", "symbol", "side", "status", "updated_at"},
     N |-> {"entry_price", "current_price", "quantity", "entry_time", "ttl"},
     Ss |-> {}]
CalendarEventItemFields ==
    [S |-> {"user_id", "event_id", "token_name", "symbol", "detected_pattern",
            "created_at", "status"},
     N |-> {"launch_time", "confidence", "ttl"},
     Ss |-> {"executed_orders"}]

\* a stored item that lacks one of the fields or holds it in another
\* representation; an empty string set is stored as no attribute at all
IsCorrupt(item, fields) ==
    \/ \E key \in fields.S : ~HasS(item, key)
    \/ \E key \in fields.N : ~HasN(item, key)
    \/ \E key \in fields.Ss : key \in DOMAIN item /\ ~HasSs(item, key)

\* C15: decoding is strict: when an item matched by get_order,
\* query_orders_by_status, query_open_positions or
\* query_calendar_events_by_time lacks a field of its record type or holds
\* it in another representation, the operation returns an error
C15_StrictDecoding ==
    \A u \in Users :
        /\ \A id \in LookupIds :
              LET keys == QueryKeys(table, u, OrderPrefix \o id \o <<"#">>)
              IN  (keys # {} /\ IsCorrupt(table[FirstKey(keys)], OrderItemFields))
                  => ~GetOrder(table, u, id).ok
        /\ \A st \in QueryStatuses :
              LET items == ItemsByStatus(table, u, OrderPrefix, st)
              IN  (\E n \in 1..Len(items) : IsCorrupt(items[n], OrderItemFields))
                  => ~QueryOrdersByStatus(table, u, st).ok
        /\ LET items == ItemsByStatus(table, u, PositionPrefix, "open")
           IN  (\E n \in 1..Len(items) : IsCorrupt(items[n], PositionItemFields))
               => ~QueryOpenPositions(table, u).ok
        /\ \A a \in QueryTimes, b \in QueryTimes :
              (\E i \in QueryCalendarEventsByTime(table, u, a, b) :
                   IsCorrupt(i, CalendarEventItemFields))
              => ~CalendarEventsByTime(table, u, a, b).ok

DetectCalls == {p \in Procs : pc[p] = "done" /\ frame[p].op = "detect_pattern"}

C17_ThreeIntervalsAtEightyDetected ==
    \A p \in DetectCalls :
        (/\ Len(Unwrap(frame[p].arg).intervals) = 3
         /\ Unwrap(frame[p].arg).detector.min_confidence = 80)
        => IsSome(Unwrap(frame[p].ret))

\* C18: should_execute_snipe answers true exactly for a confidence of 0.70
\* or more, whatever the detector's minimum and whatever is stored
C18_SnipeGate ==
    \A p \in Procs :
        (pc[p] = "done" /\ frame[p].op = "should_execute_snipe")
        => Unwrap(frame[p].ret) = (Unwrap(frame[p].arg).pattern_confidence >= 70)

\* a confidence of exactly 0.70 passes next to a detector that asks for more,
\* with events stored
C18_Witness ==
    \E p \in Procs :
        /\ pc[p] = "done"
        /\ frame[p].op = "should_execute_snipe"
        /\ Unwrap(frame[p].arg).pattern_confidence = 70
        /\ Unwrap(frame[p].arg).detector.min_confidence > 70
        /\ Unwrap(frame[p].ret) = TRUE
        /\ table # NoAttrs

\* the Positions held in memory: the one open_position builds and the ones
\* a caller got from get_open_positions
HeldPositions ==
    UNION {(IF frame[p].op = "open_position" THEN {Unwrap(frame[p].arg).position} ELSE {})
           \cup (IF frame[p].op = "get_open_positions" /\ Unwrap(frame[p].ret).ok
                 THEN SeqRange(Unwrap(frame[p].ret).val) ELSE {}) : p \in Procs}

PositionRows(tbl) == {tbl[k] : k \in {j \in DOMAIN tbl : BeginsWith(j[2], PositionPrefix)}}

\* C19: calculate_pnl sets current_price to the supplied price and sets pnl
\* and pnl_percentage together, leaving the rest of the Position alone: for
\* long pnl = (current - entry) * quantity, for short
\* pnl = (entry - current) * quantity, and pnl_percentage = (delta / entry) * 100
\* (long 100 to 110 with quantity 2 gives 20 and 10, short 100 to 90 with
\* quantity 2 gives 20 and 10); every Position, held or stored, has both pnl
\* and pnl_percentage or neither
C19_PnlComputedTogether ==
    /\ \A x \in HeldPositions : IsSome(x.pnl) <=> IsSome(x.pnl_percentage)
    /\ \A i \in PositionRows(table) : HasN(i, "pnl") <=> HasN(i, "pnl_percentage")
    /\ \A p \in Procs :
          (frame[p].op = "get_open_positions" /\ IsSome(frame[p].resp))
          => LET call == Unwrap(frame[p].resp)
                 x == Unwrap(frame[p].ret).val[call.index]
                 delta == IF x.side = "long" THEN call.current_price - x.entry_price
                          ELSE call.before.entry_price - call.current_price
                 pct == Unwrap(x.pnl_percentage)
             IN  /\ x.current_price = call.current_price
                 /\ IsSome(x.pnl) /\ IsSome(x.pnl_percentage)
                 /\ [x EXCEPT !.current_price = call.before.current_price,
                              !.pnl = call.before.pnl,
                              !.pnl_percentage = call.before.pnl_percentage,
                              !.updated_at = call.before.updated_at] = call.before
                 /\ x.side \in {"long", "short"}
                    => /\ Unwrap(x.pnl) = delta * x.quantity
                       /\ x.entry_price # 0
                          => (pct.kind = "num" /\ pct.num * x.entry_price = delta * 100 * pct.den)
                 /\ (x.side = "long" /\ x.entry_price = 100 /\ call.current_price = 110
                       /\ x.quantity = 2)
                    => (Unwrap(x.pnl) = 20 /\ pct = [kind |-> "num", num |-> 10, den |-> 1])
                 /\ (x.side = "short" /\ x.entry_price = 100 /\ call.current_price = 90
                       /\ x.quantity = 2)
                    => (Unwrap(x.pnl) = 20 /\ pct = [kind |-> "num", num |-> 10, den |-> 1])

\* a short Position entered at 100 marked to 90
C19_Witness ==
    \E p \in Procs :
        /\ frame[p].op = "get_open_positions"
        /\ IsSome(frame[p].resp)
        /\ LET call == Unwrap(frame[p].resp)
               x == Unwrap(frame[p].ret).val[call.index]
           IN  /\ x.side = "short" /\ x.entry_price = 100 /\ x.current_price = 90
               /\ x.pnl = Some(20)
               /\ ~IsSome(call.before.pnl)

\* C20: after update_position_price(owner, id, price) returns, a Position of
\* that owner and id that exists is stored with current_price = price and a
\* recomputed pnl; when the owner has no such Position the call fails with
\* not-found
C20_UpdatePositionPricePersists ==
    \A p \in Procs :
        (pc[p] = "done" /\ frame[p].op = "update_position_price")
        => LET call == Unwrap(frame[p].arg)
               rows == {i \in PositionRows(table) :
                           /\ i.user_id = S(frame[p].user)
                           /\ i.position_id = S(call.position_id)}
           IN  IF rows = {}
               THEN ~Unwrap(frame[p].ret).ok
               ELSE /\ Unwrap(frame[p].ret).ok
                    /\ \A i \in rows : /\ i.current_price = N(call.current_price)
                                        /\ HasN(i, "pnl")

\* C21: after close_position(owner, id, close_price) returns for a Position
\* that is stored, the Position is stored with status closed and the pnl at
\* close_price, that pnl is what the call returned, and
\* get_open_positions(owner) does not contain the Position
C21_ClosePositionPersists ==
    \A p \in Procs :
        (pc[p] = "done" /\ frame[p].op = "close_position")
        => LET call == Unwrap(frame[p].arg)
               rows == {i \in PositionRows(table) :
                           /\ i.user_id = S(frame[p].user)
                           /\ i.position_id = S(call.position_id)}
               open == QueryOpenPositions(table, frame[p].user)
           IN  \A i \in rows :
                   /\ i.status = S("closed")
                   /\ i.current_price = N(call.close_price)
                   /\ HasN(i, "pnl")
                   /\ Unwrap(frame[p].ret) = Ok(i.pnl.v)
                   /\ open.ok
                   /\ \A n \in 1..Len(open.val) : open.val[n].position_id # call.position_id

\* C22: the step of open_position that writes: when the write succeeds the
\* table gains exactly one row, a Position of the owner with
\* current_price = entry_price, status open and no pnl, the call returns its
\* position_id, and get_open_positions(owner) contains it; when the write
\* fails the table is unchanged and the call returns the error, not an id
C22_OpenPositionPersistsOne ==
    [][ \A p \in Procs :
          (pc[p] = "open_put" /\ pc'[p] = "done")
          => LET position == Unwrap(frame[p].arg).position
                 ret == Unwrap(frame'[p].ret)
                 open == QueryOpenPositions(table', frame[p].user)
             IN  \/ /\ ret = Ok(position.position_id)
                    /\ Cardinality(DOMAIN table') = Cardinality(DOMAIN table) + 1
                    /\ \A k \in DOMAIN table : k \in DOMAIN table' /\ table'[k] = table[k]
                    /\ \E k \in (DOMAIN table') \ (DOMAIN table) :
                          /\ table'[k].user_id = S(frame[p].user)
                          /\ table'[k].data_type = S("POSITION")
                          /\ table'[k].position_id = S(position.position_id)
                          /\ table'[k].current_price = table'[k].entry_price
                          /\ table'[k].status = S("open")
                          /\ "pnl" \notin DOMAIN table'[k]
                          /\ "pnl_percentage" \notin DOMAIN table'[k]
                    /\ open.ok
                    /\ \E n \in 1..Len(open.val) : open.val[n] = position
                 \/ /\ ~ret.ok
                    /\ table' = table ]_vars

\* an open_position whose write succeeded: the Position is stored open under the returned id
C22_Witness ==
    \E p \in Procs :
        /\ pc[p] = "done"
        /\ frame[p].op = "open_position"
        /\ Unwrap(frame[p].ret).ok
        /\ \E i \in PositionRows(table) :
              i.position_id = S(Unwrap(frame[p].ret).val) /\ i.status = S("open")

CancelCalls == {p \in Procs : pc[p] = "done" /\ frame[p].op = "cancel_order"}

\* C23: a cancel answers cancelled only after the exchange accepted a cancel
\* for the exchange id of the Order stored under the asked order_id; when the
\* stored Order has no exchange id it returns an error without calling the
\* exchange; when no Order is stored under the asked order_id it returns
\* not-found without calling the exchange
C23_CancelOutcomes ==
    \A p \in CancelCalls :
        LET rows == {table[k] : k \in OrderRowsOf(table, frame[p].user, Unwrap(frame[p].arg).order_id)}
            ret == Unwrap(frame[p].ret)
            called == "cancel_order" \in SeqRange(frame[p].log)
        IN  /\ ret.ok => /\ called
                          /\ Unwrap(frame[p].resp).ok
                          /\ \E i \in rows : /\ HasS(i, "mexc_order_id")
                                              /\ Some(i.mexc_order_id.v) = Unwrap(frame[p].order).mexc_order_id
            /\ (rows # {} /\ \A i \in rows : ~HasS(i, "mexc_order_id")) => (~ret.ok /\ ~called)
            /\ rows = {} => (ret = Err([code |-> 404, msg |-> "Order not found"]) /\ ~called)

\* C29: no step of the cancel handler changes the table, and when the
\* exchange accepted the cancel, get_order for the same owner and order_id
\* still returns the Order the handler read, status included
C29_CancelWritesNothing ==
    [][ \A p \in Procs :
          (frame'[p].op = "cancel_order" /\ (pc'[p] # pc[p] \/ frame'[p] # frame[p]))
          => /\ table' = table
             /\ (pc[p] = "cancel_exchange" /\ Unwrap(frame'[p].ret).ok)
                => GetOrder(table', frame[p].user, Unwrap(frame[p].arg).order_id)
                      = Ok(frame[p].order) ]_vars

\* the exchange accepted the cancel of an Order that is still stored open
C29_Witness ==
    \E p \in CancelCalls :
        /\ Unwrap(frame[p].ret) = Ok([code |-> 200, status |-> "cancelled"])
        /\ Unwrap(frame[p].order).status = "open"
        /\ \E k \in OrderKeys(table) : table[k] = OrderToItem(Unwrap(frame[p].order))

\* the key of the CalendarEvent row an execute_snipe invocation works on
SnipeEventKey(p) == <<frame[p].user, CalendarSortKey(Unwrap(frame[p].event))>>

\* C27: an execute_snipe that has returned its order id (exchange call and
\* both writes succeeded) finds that order id in the executed_orders of the
\* stored CalendarEvent, whatever other invocations on the same event did
C27_NoOrderIdLost ==
    \A p \in SnipeProcs :
        (pc[p] = "done" /\ Unwrap(frame[p].ret).ok)
        => /\ SnipeEventKey(p) \in DOMAIN table
           /\ Unwrap(frame[p].order).order_id
                  \in SeqRange(ItemToCalendarEvent(table[SnipeEventKey(p)]).val.executed_orders)

\* C28: the two store writes of execute_snipe, once the exchange accepted
\* the order. The Order write either stores the Order and goes on, or fails:
\* then the table is unchanged (no Order row for the placed order, the event
\* as it was), the error is returned and no CalendarEvent write is made. The
\* CalendarEvent write either stores the sniped event and returns the order
\* id, or fails: then the table is unchanged (the Order row stays, the event
\* as it was) and the error is returned, not the order id
C28_PartialFailure ==
    [][ \A p \in Procs :
          LET order == Unwrap(frame[p].order)
              okey == <<frame[p].user, OrderSortKey(order)>>
              ekey == SnipeEventKey(p)
          IN  /\ (pc[p] = "snipe_put_order" /\ pc'[p] # pc[p])
                 => \/ /\ pc'[p] = "snipe_put_event"
                       /\ okey \in DOMAIN table'
                       /\ table'[okey] = OrderToItem(order)
                    \/ /\ pc'[p] = "done"
                       /\ table' = table
                       /\ okey \notin DOMAIN table'
                       /\ ~Unwrap(frame'[p].ret).ok
                       /\ "put_calendar_event" \notin SeqRange(frame'[p].log)
              /\ (pc[p] = "snipe_put_event" /\ pc'[p] # pc[p])
                 => /\ pc'[p] = "done"
                    /\ \/ /\ Unwrap(frame'[p].ret) = Ok(order.order_id)
                          /\ ekey \in DOMAIN table'
                          /\ order.order_id \in SeqRange(table'[ekey].executed_orders.v)
                       \/ /\ ~Unwrap(frame'[p].ret).ok
                          /\ table' = table
                          /\ okey \in DOMAIN table'
                          /\ table'[okey] = OrderToItem(order) ]_vars

\* the CalendarEvent write failed: the error is returned, the Order row is
\* stored and the event is still stored as detected
C28_Witness ==
    \E p \in SnipeProcs :
        /\ pc[p] = "done"
        /\ ~Unwrap(frame[p].ret).ok
        /\ frame[p].log = <<"create_order", "put_order", "put_calendar_event">>
        /\ <<frame[p].user, OrderSortKey(Unwrap(frame[p].order))>> \in DOMAIN table
        /\ SnipeEventKey(p) \in DOMAIN table
        /\ table[SnipeEventKey(p)].status = S("detected")

\* C30: a pattern returned by detect_pattern has a confidence that is not
\* below the detector's min_confidence
C30_ConfidenceAtLeastMinimum ==
    \A p \in DetectCalls :
        IsSome(Unwrap(frame[p].ret))
        => Unwrap(Unwrap(frame[p].ret)).confidence
              >= Unwrap(frame[p].arg).detector.min_confidence


\* the operations of the exchange client, and those that sign their request
ClientOps == {"get_ticker", "create_order", "get_order", "cancel_order", "get_account_balance"}
SignedOps == ClientOps \ {"get_ticker"}

\* a client operation that has returned after the exchange answered
ClientAnswered(p) ==
    /\ pc[p] = "done"
    /\ frame[p].op \in ClientOps
    /\ IsSome(frame[p].resp)
    /\ Unwrap(frame[p].resp).sent

ErrorCarries(result, text) ==
    /\ ~result.ok
    /\ \E i \in 1..Len(result.err) : result.err[i] = text

\* C24: every operation of the exchange client turns a non-success HTTP
\* status into an error that carries the response body, without decoding the
\* body first; a success whose body does not decode is a decode error; and the
\* client sends each request once, without retrying.
C24_NonSuccessCarriesBody ==
    \A p \in Procs :
        ClientAnswered(p) =>
            LET http == Unwrap(frame[p].resp)
                result == Unwrap(frame[p].ret)
            IN  /\ ~IsSuccess(http.status) => ErrorCarries(result, http.body.text)
                /\ (IsSuccess(http.status) /\ ~http.body.decodes) =>
                       result = Err(<<"error decoding response body">>)
                /\ (IsSuccess(http.status) /\ http.body.decodes) => result.ok
                /\ frame[p].log = <<"send">>

\* the pieces of a string between occurrences of a separator
RECURSIVE SplitOn(_, _)
SplitOn(str, sep) ==
    IF \A i \in 1..Len(str) : str[i] # sep THEN <<str>>
    ELSE LET i == CHOOSE k \in 1..Len(str) :
                      str[k] = sep /\ \A j \in 1..(k - 1) : str[j] # sep
         IN  <<SubSeq(str, 1, i - 1)>> \o SplitOn(SubSeq(str, i + 1, Len(str)), sep)

\* the key=value pairs of a query string, in the order they are sent
QueryPairs(query) ==
    LET pieces == SplitOn(query, "&")
    IN  [i \in 1..Len(pieces) |-> SplitOn(pieces[i], "=")]

Contains(str, sub) ==
    \E i \in 0..(Len(str) - Len(sub)) : SubSeq(str, i + 1, i + Len(sub)) = sub

\* the parameters each signed operation passes for a call made at time t
SignedParams(op, args, t) ==
    CASE op = "create_order" -> CreateOrderParams(args, t)
      [] op \in {"get_order", "cancel_order"} -> OrderIdParams(args.symbol, args.order_id, t)
      [] op = "get_account_balance" -> MapInsert(NoAttrs, KeyTimestamp, Digits(t))

\* a signed operation whose request has been sent
SignedSent(p) ==
    /\ pc[p] \in {"client_await", "done"}
    /\ frame[p].op \in SignedOps

\* C25: for every signed call the query sent is the call's parameters as
\* key=value pairs joined by '&' in strictly ascending byte order of the keys,
\* the timestamp of the call among them, followed by a last pair 'signature'
\* whose value is the signature of exactly the text before it; the API key
\* travels in the X-MEXC-APIKEY header and nowhere in the query.
C25_SignedQueryString ==
    \A p \in Procs :
        SignedSent(p) =>
            LET call == Unwrap(frame[p].arg)
                req == call.request
                pairs == QueryPairs(req.query)
                n == Len(pairs)
                params == SignedParams(frame[p].op, call.args, call.sent_at)
                signed == SubSeq(req.query, 1,
                                 Len(req.query) - Len(pairs[n][2]) - Len(KeySignature) - 2)
            IN  /\ n >= 2
                /\ \A i \in 1..n : Len(pairs[i]) = 2
                /\ pairs[n][1] = KeySignature
                /\ pairs[n][2] = CreateSignature(SecretKey, signed)
                /\ \A i \in 1..(n - 1) : pairs[i][1] # KeySignature
                /\ \A i \in 1..(n - 1) : \A j \in (i + 1)..(n - 1) :
                       KeyLess(pairs[i][1], pairs[j][1])
                /\ {pairs[i] : i \in 1..(n - 1)} = {<<k, params[k]>> : k \in DOMAIN params}
                /\ \E i \in 1..(n - 1) : pairs[i] = <<KeyTimestamp, Digits(call.sent_at)>>
                /\ req.headers[ApiKeyHeader] = ApiKey
                /\ ~Contains(req.query, ApiKey)

\* a priced create_order has been sent: six parameters and the signature
C25_Witness ==
    \E p \in Procs :
        /\ SignedSent(p)
        /\ frame[p].op = "create_order"
        /\ IsSome(Unwrap(frame[p].arg).args.price)
        /\ Len(QueryPairs(Unwrap(frame[p].arg).request.query)) = 7

\* a call of create_signature that has returned
Signed(p) ==
    /\ pc[p] = "done"
    /\ frame[p].op = "create_signature"

IsLowerHex(str) == \A i \in 1..Len(str) : \E d \in 1..Len(HexDigits) : str[i] = HexDigits[d]

====
